---- MODULE Spec2Model ----
(***************************************************************************)
(* Model of the HiGHS model-mutation interface (lp_data/HighsInterface.cpp) *)
(* as a state machine over the Highs object: the incumbent LP, the options  *)
(* that the interface reads, the HiGHS basis, the model status, the         *)
(* solution, the info record and the simplex engine's status flags.         *)
(*                                                                         *)
(* Numbers.  A double is modelled by an integer count of 1/One units, so    *)
(* that 1.0 is One and 0.5 is One \div 2; +infinity is kHighsInf.           *)
(* Multiplying by std::pow(2, k) is exact on doubles and is exact here for  *)
(* every value the specifications below produce.                            *)
(* Vectors are sequences; the code's 0-based index i is element i + 1.      *)
(***************************************************************************)
EXTENDS Integers, Sequences, FiniteSets, TLC

VARIABLES lp, options, basis, model_status, solution, info, ekk, call, pre, pc, ef,
          trace, multi_linear_objective_, hessian_, mps

vars == <<lp, options, basis, model_status, solution, info, ekk, call, pre, pc,
          ef, trace, multi_linear_objective_, hessian_, mps>>

(***************************************************************************)
(* Bounds of the model                                                      *)
(***************************************************************************)
MaxCol == 2
MaxRow == 2
MaxScale == 1

(***************************************************************************)
(* Numeric representation and option values                                *)
(***************************************************************************)
One == 2 ^ 8
Half == One \div 2
kHighsInf == 2 ^ 24
infinite_bound == 4 * One
infinite_cost == 4 * One
large_matrix_value == 4 * One
small_matrix_value == 0
primal_feasibility_tolerance == One \div 4
dual_feasibility_tolerance == One \div 4

Abs(x) == IF x < 0 THEN -x ELSE x
Pow2(k) == 2 ^ k
highs_isInfinity(x) == x >= kHighsInf

\* x * std::pow(2, k): infinities stay infinite
ScaleBy(x, k) ==
  IF x >= kHighsInf THEN kHighsInf
  ELSE IF x <= -kHighsInf THEN -kHighsInf
  ELSE IF k >= 0 THEN x * Pow2(k)
  ELSE x \div Pow2(-k)

\* std::ceil and std::floor
Ceil(x) == IF Abs(x) >= kHighsInf THEN x ELSE x + ((-x) % One)
Floor(x) == IF Abs(x) >= kHighsInf THEN x ELSE x - (x % One)

At(v, i) == v[i + 1]
SetAt(v, i, x) == [v EXCEPT ![i + 1] = x]
Resize(v, n, fill) == [i \in 1..n |-> IF i <= Len(v) THEN v[i] ELSE fill]
Const(n, x) == [i \in 1..n |-> x]
MapSeq(v, F(_)) == [i \in 1..Len(v) |-> F(v[i])]

\* The element of a singleton.  Only({e : x \in {v}}) is e with x standing
\* for the value of v, computed once however often e uses it: the way the
\* model names the result of a step that later steps read
Only(S) == CHOOSE x \in S : TRUE

(***************************************************************************)
(* The Highs object as one record, and the result of a call                 *)
(***************************************************************************)
\* trace is the sequence of the events of one step, in the order the code
\* produces them: "write" for a write into the LP of a change or scale call,
\* "invalidate" for invalidateModelStatusSolutionAndInfo, and the token of
\* each notification of the engine.  A step starts with no event
Highs == [lp |-> lp, options |-> options, basis |-> basis,
          model_status |-> model_status, solution |-> solution,
          info |-> info, ekk |-> ekk, trace |-> <<>>,
          multi_linear_objective_ |-> multi_linear_objective_,
          hessian_ |-> hessian_]

Ret(h, status) == [h |-> h, status |-> status]

(***************************************************************************)
(* HighsIndexCollection                                                     *)
(***************************************************************************)
Interval(dim, from, to) ==
  [dimension_ |-> dim, is_interval_ |-> TRUE, from_ |-> from, to_ |-> to,
   is_set_ |-> FALSE, set_ |-> <<>>, is_mask_ |-> FALSE, mask_ |-> <<>>]
SetOf(dim, set) ==
  [dimension_ |-> dim, is_interval_ |-> FALSE, from_ |-> -1, to_ |-> -2,
   is_set_ |-> TRUE, set_ |-> set, is_mask_ |-> FALSE, mask_ |-> <<>>]
MaskOf(dim, mask) ==
  [dimension_ |-> dim, is_interval_ |-> FALSE, from_ |-> -1, to_ |-> -2,
   is_set_ |-> FALSE, set_ |-> <<>>, is_mask_ |-> TRUE, mask_ |-> mask]

\* The indices an index collection holds (the reference meaning of the three
\* forms)
InCollection(ic) ==
  IF ic.is_interval_ THEN {i \in 0..(ic.dimension_ - 1) : ic.from_ <= i /\ i <= ic.to_}
  ELSE IF ic.is_set_ THEN {ic.set_[k] : k \in 1..Len(ic.set_)}
  ELSE {i \in 0..(ic.dimension_ - 1) : ic.mask_[i + 1] # 0}

limits(ic) ==
  IF ic.is_interval_ THEN [from_k |-> ic.from_, to_k |-> ic.to_]
  ELSE IF ic.is_set_ THEN [from_k |-> 0, to_k |-> Len(ic.set_) - 1]
  ELSE [from_k |-> 0, to_k |-> ic.dimension_ - 1]

dataSize(ic) ==
  IF ic.is_interval_ THEN ic.to_ - ic.from_ + 1
  ELSE IF ic.is_set_ THEN Len(ic.set_)
  ELSE ic.dimension_

RECURSIVE SetRunEnd(_, _, _)
\* last entry of the run of consecutive set entries starting after entry k
SetRunEnd(set, k, out_to) ==
  IF k < Len(set) /\ set[k + 1] <= out_to + 1
  THEN SetRunEnd(set, k + 1, set[k + 1])
  ELSE [out_to |-> out_to, current |-> k]

RECURSIVE FirstWith(_, _, _, _)
\* least ix in from..dim-1 with (mask[ix] # 0) = flag, or dim if there is none
FirstWith(mask, ix, dim, flag) ==
  IF ix >= dim THEN dim
  ELSE IF (mask[ix + 1] # 0) = flag THEN ix
  ELSE FirstWith(mask, ix + 1, dim, flag)

\* One step of the walk over an index collection: the next block of indices
\* in the collection (out) and the block of indices that follows it (in)
updateOutInIndex(ic, in_to_ix, current_set_entry) ==
  IF ic.is_interval_ THEN
    [out_from |-> ic.from_, out_to |-> ic.to_, in_from |-> ic.to_ + 1,
     in_to |-> ic.dimension_ - 1, current |-> current_set_entry]
  ELSE IF ic.is_set_ THEN
    LET first == ic.set_[current_set_entry + 1]
        run == SetRunEnd(ic.set_, current_set_entry + 1, first)
    IN [out_from |-> first, out_to |-> run.out_to, in_from |-> run.out_to + 1,
        in_to |-> IF run.current < Len(ic.set_)
                  THEN ic.set_[run.current + 1] - 1
                  ELSE ic.dimension_ - 1,
        current |-> run.current]
  ELSE
    LET out_to == FirstWith(ic.mask_, in_to_ix + 1, ic.dimension_, FALSE) - 1
        in_to == FirstWith(ic.mask_, out_to + 1, ic.dimension_, TRUE) - 1
    IN [out_from |-> in_to_ix + 1, out_to |-> out_to, in_from |-> out_to + 1,
        in_to |-> in_to, current |-> current_set_entry]

(***************************************************************************)
(* Derived state that every model change resets                             *)
(***************************************************************************)
InvalidInfo ==
  [valid |-> FALSE, objective_function_value |-> 0,
   primal_solution_status |-> "kSolutionStatusNone",
   dual_solution_status |-> "kSolutionStatusNone",
   num_primal_infeasibilities |-> -1, max_primal_infeasibility |-> 0,
   sum_primal_infeasibilities |-> 0,
   num_dual_infeasibilities |-> -1, max_dual_infeasibility |-> 0,
   sum_dual_infeasibilities |-> 0]

\* An invalidated solution keeps its vectors in the code.  While the valid
\* flags are off the interface uses them in two places: optionChangeAction
\* rescales them, and elasticityFilter reads the values of its last solve,
\* of which the filter's own state keeps a copy.  Elsewhere the model does
\* not track them
NoSolution ==
  [value_valid |-> FALSE, dual_valid |-> FALSE, col_value |-> <<>>,
   row_value |-> <<>>, col_dual |-> <<>>, row_dual |-> <<>>]

invalidateModelStatusSolutionAndInfo(h) ==
  [h EXCEPT !.model_status = "kNotset",
            !.solution = NoSolution,
            !.info = InvalidInfo,
            !.trace = Append(@, "invalidate")]

\* The record of a ray: the index and the sign the engine has recorded, and
\* the vector once it has been computed.  kNoRayIndex is the index of no ray
kNoRayIndex == -1

NoRayRecord == [index |-> kNoRayIndex, sign |-> 0, value |-> <<>>]

\* HEkk::updateStatus: cost and bound tokens keep the basis and the factor,
\* structural tokens clear the engine (HEkk::clear); a ray record does not
\* outlive a change of the LP
ekkUpdateStatus(h, action) ==
  IF action \in {"kNewCosts", "kNewBounds"}
  THEN [h EXCEPT !.ekk.last_action = action,
                 !.ekk.dual_ray_record_ = NoRayRecord,
                 !.ekk.primal_ray_record_ = NoRayRecord,
                 !.trace = Append(@, action)]
  ELSE [h EXCEPT !.ekk = [has_basis |-> FALSE, has_invert |-> FALSE,
                          initialised_for_solve |-> FALSE,
                          basicIndex_ |-> <<>>, nonbasicFlag_ |-> <<>>,
                          nonbasicMove_ |-> <<>>, last_action |-> action,
                          dual_ray_record_ |-> NoRayRecord,
                          primal_ray_record_ |-> NoRayRecord],
                 !.trace = Append(@, action)]

(***************************************************************************)
(* Assessment and normalisation of user data (lp_data/HighsLpUtils)         *)
(***************************************************************************)
NormCost(c, inf_cost) ==
  IF c >= inf_cost THEN kHighsInf ELSE IF c <= -inf_cost THEN -kHighsInf ELSE c

assessCosts(cost, inf_cost) ==
  [status |-> "kOk",
   cost |-> [i \in 1..Len(cost) |-> NormCost(cost[i], inf_cost)],
   has_infinite_cost |-> \E i \in 1..Len(cost) : Abs(cost[i]) >= inf_cost]

NormLower(l, inf_bound) == IF l <= -inf_bound THEN -kHighsInf ELSE l
NormUpper(u, inf_bound) == IF u >= inf_bound THEN kHighsInf ELSE u

assessBounds(lower, upper, inf_bound) ==
  [status |-> IF \E i \in 1..Len(lower) :
                   lower[i] >= inf_bound \/ upper[i] <= -inf_bound
              THEN "kError" ELSE "kOk",
   lower |-> [i \in 1..Len(lower) |-> NormLower(lower[i], inf_bound)],
   upper |-> [i \in 1..Len(upper) |-> NormUpper(upper[i], inf_bound)]]

boundScaleOk(lower, upper, bound_scale, inf_bound) ==
  \/ bound_scale = 0
  \/ \A i \in 1..Len(lower) :
       /\ (lower[i] > -kHighsInf => Abs(ScaleBy(lower[i], bound_scale)) < inf_bound)
       /\ (upper[i] < kHighsInf => Abs(ScaleBy(upper[i], bound_scale)) < inf_bound)

costScaleOk(cost, cost_scale, inf_cost) ==
  \/ cost_scale = 0
  \/ \A i \in 1..Len(cost) :
       Abs(cost[i]) < kHighsInf => Abs(ScaleBy(cost[i], cost_scale)) < inf_cost

hasInfiniteCost(l, inf_cost) ==
  \E i \in 1..l.num_col_ : Abs(l.col_cost_[i]) >= inf_cost

isMip(l) == \E i \in 1..Len(l.integrality_) : l.integrality_[i] # "kContinuous"

\* The vectors are resized to the new dimension and the new entries written
appendColsToLpVectors(l, num_new_col, colCost, colLower, colUpper) ==
  LET n == l.num_col_
      Put(v, new, fill) ==
        [i \in 1..(n + num_new_col) |->
           IF i <= n THEN (IF i <= Len(v) THEN v[i] ELSE fill) ELSE new[i - n]]
  IN [l EXCEPT !.col_cost_ = Put(l.col_cost_, colCost, 0),
               !.col_lower_ = Put(l.col_lower_, colLower, 0),
               !.col_upper_ = Put(l.col_upper_, colUpper, 0),
               !.integrality_ =
                  IF Len(l.integrality_) # 0
                  THEN Resize(l.integrality_, n + num_new_col, "kContinuous")
                  ELSE l.integrality_]

appendRowsToLpVectors(l, num_new_row, rowLower, rowUpper) ==
  LET n == l.num_row_
      Put(v, new, fill) ==
        [i \in 1..(n + num_new_row) |->
           IF i <= n THEN (IF i <= Len(v) THEN v[i] ELSE fill) ELSE new[i - n]]
  IN [l EXCEPT !.row_lower_ = Put(l.row_lower_, rowLower, 0),
               !.row_upper_ = Put(l.row_upper_, rowUpper, 0)]

(***************************************************************************)
(* Sparse matrix.  The matrix is the set of its entries <<row, col, value>>; *)
(* a block of new columns (rows) is a sequence, one element per new column  *)
(* (row), of sequences of <<index, value>> pairs.                           *)
(***************************************************************************)
NumNz(block) ==
  LET RECURSIVE Sum(_)
      Sum(k) == IF k = 0 THEN 0 ELSE Len(block[k]) + Sum(k - 1)
  IN Sum(Len(block))

\* HighsSparseMatrix::assess: indices in range and distinct within a vector,
\* no value of magnitude large_tol or more; values of magnitude at most
\* small_tol are dropped
matrixAssess(block, minor_dim, small_tol, large_tol) ==
  LET bad == \E k \in 1..Len(block) :
               \/ \E e \in 1..Len(block[k]) :
                    \/ block[k][e][1] < 0 \/ block[k][e][1] >= minor_dim
                    \/ Abs(block[k][e][2]) >= large_tol
               \/ \E e, f \in 1..Len(block[k]) :
                    e # f /\ block[k][e][1] = block[k][f][1]
  IN [status |-> IF bad THEN "kError" ELSE "kOk",
      block |-> [k \in 1..Len(block) |->
                   SelectSeq(block[k], LAMBDA p : Abs(p[2]) > small_tol)]]

matrixAddCols(a, num_col, block) ==
  a \cup UNION {{<<block[k][e][1], num_col + k - 1, block[k][e][2]>> :
                   e \in 1..Len(block[k])} : k \in 1..Len(block)}

matrixAddRows(a, num_row, block) ==
  a \cup UNION {{<<num_row + k - 1, block[k][e][1], block[k][e][2]>> :
                   e \in 1..Len(block[k])} : k \in 1..Len(block)}

(***************************************************************************)
(* The scaling record of the LP: lp.scale_                                  *)
(***************************************************************************)
NoScale == [has_scaling |-> FALSE, num_col |-> 0, num_row |-> 0,
            col |-> <<>>, row |-> <<>>]

\* The largest magnitude among the values of one new column or row, each
\* multiplied by the scale factor of its row or column
MaxScaledValue(vector, cross_scale) ==
  IF vector = <<>> THEN 0
  ELSE CHOOSE m \in {Abs((vector[e][2] * cross_scale[vector[e][1] + 1]) \div One) :
                       e \in 1..Len(vector)} :
         \A e \in 1..Len(vector) :
           Abs((vector[e][2] * cross_scale[vector[e][1] + 1]) \div One) <= m

\* considerColScaling and considerRowScaling: a vector whose largest
\* magnitude is 2 or more is scaled down, any other is left with factor 1
considerScaling(vector, cross_scale) ==
  IF MaxScaledValue(vector, cross_scale) >= 2 * One THEN Half ELSE One

\* Lines 501-512
extendColScale(scale, num_col, block) ==
  IF ~scale.has_scaling THEN scale
  ELSE [scale EXCEPT
          !.col = Resize(@, num_col, 0)
                  \o [k \in 1..Len(block) |-> considerScaling(block[k], scale.row)],
          !.num_col = num_col + Len(block)]

\* Lines 646-657
extendRowScale(scale, num_row, block) ==
  IF ~scale.has_scaling THEN scale
  ELSE [scale EXCEPT
          !.row = Resize(@, num_row, 0)
                  \o [k \in 1..Len(block) |-> considerScaling(block[k], scale.col)],
          !.num_row = num_row + Len(block)]

(***************************************************************************)
(* Basis maintenance when columns and rows are added                        *)
(***************************************************************************)
kNonbasicMoveUp == 1
kNonbasicMoveDn == -1
kNonbasicMoveZe == 0
kNonbasicFlagTrue == 1
kNonbasicFlagFalse == 0
\* The choice that puts every boxed column at its lower bound
NewColStatusAtLower(lower, upper) ==
  IF lower = upper THEN [status |-> "kLower", move |-> kNonbasicMoveZe]
  ELSE IF ~highs_isInfinity(-lower)
    THEN [status |-> "kLower", move |-> kNonbasicMoveUp]
  ELSE IF ~highs_isInfinity(upper)
    THEN [status |-> "kUpper", move |-> kNonbasicMoveDn]
  ELSE [status |-> "kZero", move |-> kNonbasicMoveZe]

\* Status and move of a new nonbasic column with the given bounds
NewColStatus(lower, upper) ==
  IF lower = upper THEN [status |-> "kLower", move |-> kNonbasicMoveZe]
  ELSE IF ~highs_isInfinity(-lower) THEN
    IF ~highs_isInfinity(upper) THEN
      IF Abs(lower) < Abs(upper)
      THEN [status |-> "kLower", move |-> kNonbasicMoveUp]
      ELSE [status |-> "kUpper", move |-> kNonbasicMoveDn]
    ELSE [status |-> "kLower", move |-> kNonbasicMoveUp]
  ELSE IF ~highs_isInfinity(upper)
    THEN [status |-> "kUpper", move |-> kNonbasicMoveDn]
  ELSE [status |-> "kZero", move |-> kNonbasicMoveZe]

\* The function, were the indices of the basic logicals left as they are
appendNonbasicColsToBasisInterfaceUnshifted(h, ext_num_new_col) ==
  IF ext_num_new_col = 0 \/ ~h.basis.useful THEN h
  ELSE
    LET l == h.lp
        newNumCol == l.num_col_ + ext_num_new_col
        newNumTot == newNumCol + l.num_row_
        st(iCol) == NewColStatus(l.col_lower_[iCol + 1], l.col_upper_[iCol + 1])
        col_status ==
          [i \in 1..newNumCol |->
             IF i <= l.num_col_ THEN h.basis.col_status[i]
             ELSE st(i - 1).status]
        flag == [i \in 1..newNumTot |->
                   IF i <= l.num_col_ THEN h.ekk.nonbasicFlag_[i]
                   ELSE IF i <= newNumCol THEN kNonbasicFlagTrue
                   ELSE h.ekk.nonbasicFlag_[i - ext_num_new_col]]
        move == [i \in 1..newNumTot |->
                   IF i <= l.num_col_ THEN h.ekk.nonbasicMove_[i]
                   ELSE IF i <= newNumCol THEN st(i - 1).move
                   ELSE h.ekk.nonbasicMove_[i - ext_num_new_col]]
        index == [r \in 1..l.num_row_ |->
                    h.ekk.basicIndex_[r]]
    IN IF h.ekk.has_basis
       THEN [h EXCEPT !.basis.col_status = col_status,
                      !.ekk.nonbasicFlag_ = flag,
                      !.ekk.nonbasicMove_ = move,
                      !.ekk.basicIndex_ = index]
       ELSE [h EXCEPT !.basis.col_status = col_status]

\* Highs::appendNonbasicColsToBasisInterface
appendNonbasicColsToBasisInterface(h, ext_num_new_col) ==
  IF ext_num_new_col = 0 \/ ~h.basis.useful THEN h
  ELSE
    LET l == h.lp
        newNumCol == l.num_col_ + ext_num_new_col
        newNumTot == newNumCol + l.num_row_
        st(iCol) == NewColStatus(l.col_lower_[iCol + 1], l.col_upper_[iCol + 1])
        col_status ==
          [i \in 1..newNumCol |->
             IF i <= l.num_col_ THEN h.basis.col_status[i]
             ELSE st(i - 1).status]
        flag == [i \in 1..newNumTot |->
                   IF i <= l.num_col_ THEN h.ekk.nonbasicFlag_[i]
                   ELSE IF i <= newNumCol THEN kNonbasicFlagTrue
                   ELSE h.ekk.nonbasicFlag_[i - ext_num_new_col]]
        move == [i \in 1..newNumTot |->
                   IF i <= l.num_col_ THEN h.ekk.nonbasicMove_[i]
                   ELSE IF i <= newNumCol THEN st(i - 1).move
                   ELSE h.ekk.nonbasicMove_[i - ext_num_new_col]]
        index == [r \in 1..l.num_row_ |->
                    IF h.ekk.basicIndex_[r] >= l.num_col_
                    THEN h.ekk.basicIndex_[r] + ext_num_new_col
                    ELSE h.ekk.basicIndex_[r]]
    IN IF h.ekk.has_basis
       THEN [h EXCEPT !.basis.col_status = col_status,
                      !.ekk.nonbasicFlag_ = flag,
                      !.ekk.nonbasicMove_ = move,
                      !.ekk.basicIndex_ = index]
       ELSE [h EXCEPT !.basis.col_status = col_status]

appendBasicRowsToBasisInterface(h, ext_num_new_row) ==
  IF ext_num_new_row = 0 \/ ~h.basis.useful THEN h
  ELSE
    LET l == h.lp
        newNumRow == l.num_row_ + ext_num_new_row
        newNumTot == l.num_col_ + newNumRow
        row_status == Resize(h.basis.row_status, newNumRow, "kBasic")
        flag == [i \in 1..newNumTot |->
                   IF i <= l.num_col_ + l.num_row_ THEN h.ekk.nonbasicFlag_[i]
                   ELSE kNonbasicFlagFalse]
        move == [i \in 1..newNumTot |->
                   IF i <= l.num_col_ + l.num_row_ THEN h.ekk.nonbasicMove_[i]
                   ELSE 0]
        index == [r \in 1..newNumRow |->
                    IF r <= l.num_row_ THEN h.ekk.basicIndex_[r]
                    ELSE l.num_col_ + r - 1]
    IN IF h.ekk.has_basis
       THEN [h EXCEPT !.basis.row_status = row_status,
                      !.ekk.nonbasicFlag_ = flag,
                      !.ekk.nonbasicMove_ = move,
                      !.ekk.basicIndex_ = index]
       ELSE [h EXCEPT !.basis.row_status = row_status]

(***************************************************************************)
(* Highs::addColsInterface                                                  *)
(***************************************************************************)
\* The tail of addColsInterface, from the append of the vectors on
addColsAppend(h, n, cost, lower, upper, ext_num_new_nz, ext_a, has_inf) ==
  Only({
    IF ext_num_new_nz # 0 /\ assessed.status = "kError"
    THEN Ret(h1, "kError")
    ELSE
      Only({ Only({ Only({ Only({ Only({
        Ret(ekkUpdateStatus(h5, "kNewCols"), "kOk")
        : h5 \in {invalidateModelStatusSolutionAndInfo(h4)} })
        : h4 \in {[h3 EXCEPT !.lp.num_col_ = @ + n,
                             !.lp.has_infinite_cost_ = @ \/ has_inf]} })
        : h3 \in {appendNonbasicColsToBasisInterface(h2, n)} })
        : h2 \in {[h1 EXCEPT
                     !.lp.a_matrix_ = matrixAddCols(@, h1.lp.num_col_, local_a),
                     !.lp.scale_ = extendColScale(@, h1.lp.num_col_, local_a)]} })
        : local_a \in {IF ext_num_new_nz # 0 THEN assessed.block
                       ELSE Const(n, <<>>)} })
    : h1 \in {[h EXCEPT !.lp = appendColsToLpVectors(@, n, cost, lower, upper)]},
      assessed \in {matrixAssess(ext_a, h.lp.num_row_, small_matrix_value,
                                 large_matrix_value)} })

addColsInterface(h, ext_num_new_col, ext_col_cost, ext_col_lower, ext_col_upper, ext_num_new_nz, ext_a, col_data_null, matrix_data_null) ==
  IF ext_num_new_col < 0 THEN Ret(h, "kError")
  ELSE IF ext_num_new_nz < 0 THEN Ret(h, "kError")
  ELSE IF ext_num_new_col = 0 THEN Ret(h, "kOk")
  ELSE IF col_data_null THEN Ret(h, "kError")
  ELSE IF ext_num_new_nz > 0 /\ matrix_data_null THEN Ret(h, "kError")
  ELSE IF h.lp.num_row_ <= 0 /\ ext_num_new_nz > 0 THEN Ret(h, "kError")
  ELSE
    Only({
      IF costs.status = "kError" THEN Ret(h, "kError")
      ELSE IF bounds.status = "kError" THEN Ret(h, "kError")
      ELSE IF bs # 0 /\ ~boundScaleOk(bounds.lower, bounds.upper, bs,
                                       infinite_bound)
        THEN Ret(h, "kError")
      ELSE IF cs # 0 /\ ~costScaleOk(costs.cost, cs, infinite_cost)
        THEN Ret(h, "kError")
      ELSE
        Only({
          addColsAppend(h, ext_num_new_col, local_colCost, local_colLower,
                        local_colUpper, ext_num_new_nz, ext_a,
                        costs.has_infinite_cost)
          : local_colCost \in
              {[i \in 1..Len(costs.cost) |-> ScaleBy(costs.cost[i], cs)]},
            local_colLower \in
              {[i \in 1..Len(bounds.lower) |-> ScaleBy(bounds.lower[i], bs)]},
            local_colUpper \in
              {[i \in 1..Len(bounds.upper) |-> ScaleBy(bounds.upper[i], bs)]} })
      : costs \in {assessCosts(ext_col_cost, infinite_cost)},
        bounds \in {assessBounds(ext_col_lower, ext_col_upper, infinite_bound)},
        bs \in {h.lp.user_bound_scale_},
        cs \in {h.lp.user_cost_scale_} })

(***************************************************************************)
(* Highs::addRowsInterface                                                  *)
(***************************************************************************)
addRowsAppend(h, n, lower, upper, ext_num_new_nz, ext_ar) ==
  Only({
    IF ext_num_new_nz # 0 /\ assessed.status = "kError"
    THEN Ret(h1, "kError")
    ELSE
      Only({ Only({ Only({ Only({ Only({
        Ret(ekkUpdateStatus(h5, "kNewRows"), "kOk")
        : h5 \in {invalidateModelStatusSolutionAndInfo(h4)} })
        : h4 \in {[h3 EXCEPT !.lp.num_row_ = @ + n]} })
        : h3 \in {appendBasicRowsToBasisInterface(h2, n)} })
        : h2 \in {[h1 EXCEPT
                     !.lp.a_matrix_ = matrixAddRows(@, h1.lp.num_row_, local_ar),
                     !.lp.scale_ = extendRowScale(@, h1.lp.num_row_, local_ar)]} })
        : local_ar \in {IF ext_num_new_nz # 0 THEN assessed.block
                       ELSE Const(n, <<>>)} })
    : h1 \in {[h EXCEPT !.lp = appendRowsToLpVectors(@, n, lower, upper)]},
      assessed \in {matrixAssess(ext_ar, h.lp.num_col_, small_matrix_value,
                                 large_matrix_value)} })

addRowsInterface(h, ext_num_new_row, ext_row_lower, ext_row_upper, ext_num_new_nz, ext_ar, row_data_null, matrix_data_null) ==
  IF ext_num_new_row < 0 THEN Ret(h, "kError")
  ELSE IF ext_num_new_nz < 0 THEN Ret(h, "kError")
  ELSE IF ext_num_new_row = 0 THEN Ret(h, "kOk")
  ELSE IF row_data_null THEN Ret(h, "kError")
  ELSE IF ext_num_new_nz > 0 /\ matrix_data_null THEN Ret(h, "kError")
  ELSE IF h.lp.num_col_ <= 0 /\ ext_num_new_nz > 0 THEN Ret(h, "kError")
  ELSE
    Only({
      IF bounds.status = "kError" THEN Ret(h, "kError")
      ELSE IF bs # 0 /\ ~boundScaleOk(bounds.lower, bounds.upper, bs,
                                       infinite_bound)
        THEN Ret(h, "kError")
      ELSE
        Only({
          addRowsAppend(h, ext_num_new_row, local_rowLower, local_rowUpper,
                        ext_num_new_nz, ext_ar)
          : local_rowLower \in
              {[i \in 1..Len(bounds.lower) |-> ScaleBy(bounds.lower[i], bs)]},
            local_rowUpper \in
              {[i \in 1..Len(bounds.upper) |-> ScaleBy(bounds.upper[i], bs)]} })
      : bounds \in {assessBounds(ext_row_lower, ext_row_upper, infinite_bound)},
        bs \in {h.lp.user_bound_scale_} })

(***************************************************************************)
(* Deleting columns and rows                                                *)
(***************************************************************************)
\* Rank of index i among the indices not in del
NewIndex(i, del) == Cardinality({j \in 0..(i - 1) : j \notin del})

\* The entries of the first n elements of v whose index is not in del, in
\* their original order
KeepSeq(v, del, n) ==
  LET kept == {i \in 0..(n - 1) : i \notin del}
  IN [k \in 1..Cardinality(kept) |->
        v[(CHOOSE i \in kept : NewIndex(i, del) = k - 1) + 1]]

\* HighsLp::deleteCols: data vectors and matrix lose the columns of the
\* collection
lpDeleteCols(l, ic) ==
  LET del == InCollection(ic) \cap (0..(l.num_col_ - 1))
      n == l.num_col_
  IN IF del = {} THEN l
     ELSE [l EXCEPT
             !.col_cost_ = KeepSeq(l.col_cost_, del, n),
             !.col_lower_ = KeepSeq(l.col_lower_, del, n),
             !.col_upper_ = KeepSeq(l.col_upper_, del, n),
             !.integrality_ = IF Len(l.integrality_) # 0
                              THEN KeepSeq(l.integrality_, del, n)
                              ELSE l.integrality_,
             !.a_matrix_ = {<<e[1], NewIndex(e[2], del), e[3]>> :
                              e \in {f \in l.a_matrix_ : f[2] \notin del}},
             !.num_col_ = n - Cardinality(del)]

lpDeleteRows(l, ic) ==
  LET del == InCollection(ic) \cap (0..(l.num_row_ - 1))
      n == l.num_row_
  IN IF del = {} THEN l
     ELSE [l EXCEPT
             !.row_lower_ = KeepSeq(l.row_lower_, del, n),
             !.row_upper_ = KeepSeq(l.row_upper_, del, n),
             !.a_matrix_ = {<<NewIndex(e[1], del), e[2], e[3]>> :
                              e \in {f \in l.a_matrix_ : f[1] \notin del}},
             !.num_row_ = n - Cardinality(del)]

\* deleteScale followed by the resize to the new dimension
deleteScale(v, ic, dim) ==
  KeepSeq(Resize(v, dim, 0), InCollection(ic) \cap (0..(dim - 1)), dim)

RECURSIVE deleteBasisEntriesLoop(_, _, _, _)
deleteBasisEntriesLoop(ic, entry_dim, k, s) ==
  IF k > limits(ic).to_k THEN s
  ELSE
    Only({ Only({
      IF u.out_to >= entry_dim - 1 THEN s1
      ELSE
        Only({
          IF u.in_to >= entry_dim - 1 THEN s2
          ELSE deleteBasisEntriesLoop(ic, entry_dim, k + 1, s2)
          : s2 \in {[s1 EXCEPT
                       !.status =
                          [i \in 1..Len(@) |->
                             IF /\ i > s1.new_num_entry
                                /\ i <= s1.new_num_entry + u.in_to - u.in_from + 1
                             THEN @[u.in_from + (i - s1.new_num_entry)]
                             ELSE @[i]],
                       !.new_num_entry = @ + u.in_to - u.in_from + 1]} })
      : s1 \in {[s EXCEPT
                  !.new_num_entry =
                     IF k = limits(ic).from_k THEN u.out_from ELSE @,
                  !.deleted_basic =
                     @ \/ \E e \in u.out_from..u.out_to :
                            s.status[e + 1] = "kBasic",
                  !.deleted_nonbasic =
                     @ \/ \E e \in u.out_from..u.out_to :
                            s.status[e + 1] # "kBasic",
                  !.keep_to_entry = u.in_to,
                  !.current_set_entry = u.current]} })
      : u \in {updateOutInIndex(ic, s.keep_to_entry, s.current_set_entry)} })

\* uninit holds the values that the caller's uninitialised deleted_basic and
\* deleted_nonbasic happen to have when the early return leaves them unset
deleteBasisEntries(status, ic, entry_dim, uninit) ==
  IF limits(ic).from_k > limits(ic).to_k
  THEN [status |-> status, deleted_basic |-> uninit.basic,
        deleted_nonbasic |-> uninit.nonbasic]
  ELSE
    Only({
      [status |-> SubSeq(s.status, 1, s.new_num_entry),
       deleted_basic |-> s.deleted_basic,
       deleted_nonbasic |-> s.deleted_nonbasic]
      : s \in {deleteBasisEntriesLoop(ic, entry_dim, limits(ic).from_k,
                 [status |-> status, new_num_entry |-> 0,
                  deleted_basic |-> FALSE, deleted_nonbasic |-> FALSE,
                  keep_to_entry |-> -1, current_set_entry |-> 0])} })

\* deleteBasisCols that leaves the validity of the basis alone
deleteBasisColsKeepsValid(b, ic, original_num_col, uninit) ==
  Only({ [b EXCEPT !.col_status = d.status]
         : d \in {deleteBasisEntries(b.col_status, ic, original_num_col,
                                     uninit)} })

deleteBasisCols(b, ic, original_num_col, uninit) ==
  Only({ [b EXCEPT !.col_status = d.status,
                   !.valid = IF d.deleted_basic THEN FALSE ELSE @]
         : d \in {deleteBasisEntries(b.col_status, ic, original_num_col,
                                     uninit)} })

\* deleteBasisRows that tests the flag deleteBasisCols tests
deleteBasisRowsDeletedBasic(b, ic, original_num_row, uninit) ==
  Only({ [b EXCEPT !.row_status = d.status,
                   !.valid = IF d.deleted_basic THEN FALSE ELSE @]
         : d \in {deleteBasisEntries(b.row_status, ic, original_num_row,
                                     uninit)} })

deleteBasisRows(b, ic, original_num_row, uninit) ==
  Only({ [b EXCEPT !.row_status = d.status,
                   !.valid = IF d.deleted_nonbasic THEN FALSE ELSE @]
         : d \in {deleteBasisEntries(b.row_status, ic, original_num_row,
                                     uninit)} })

\* The mask after a deletion: new index of a kept entry, -1 for a deleted one
RECURSIVE NewMask(_, _, _)
NewMask(mask, col, new_col) ==
  IF col >= Len(mask) THEN mask
  ELSE IF mask[col + 1] = 0
    THEN NewMask([mask EXCEPT ![col + 1] = new_col], col + 1, new_col + 1)
    ELSE NewMask([mask EXCEPT ![col + 1] = -1], col + 1, new_col)

deleteColsInterface(h, ic, uninit) ==
  Only({
    IF l1.num_col_ = original_num_col
    THEN [h |-> [h EXCEPT !.lp = l1], status |-> "kOk", ic |-> ic]
    ELSE
      Only({ Only({
        [h |-> ekkUpdateStatus(h3, "kDelCols"), status |-> "kOk",
         ic |-> IF ic.is_mask_
                THEN [ic EXCEPT !.mask_ = NewMask(@, 0, 0)]
                ELSE ic]
        : h3 \in {invalidateModelStatusSolutionAndInfo(h2)} })
        : h2 \in {[h EXCEPT
                     !.lp = IF l1.scale_.has_scaling
                            THEN [l1 EXCEPT
                                    !.scale_.col = deleteScale(@, ic, original_num_col),
                                    !.scale_.num_col = l1.num_col_]
                            ELSE l1,
                     !.model_status = "kNotset",
                     !.basis = IF @.useful
                               THEN deleteBasisCols(@, ic, original_num_col, uninit)
                               ELSE @]} })
    : original_num_col \in {h.lp.num_col_},
      l1 \in {lpDeleteCols(h.lp, ic)} })

\* deleteRowsInterface that leaves the row scale factors as they are
deleteRowsInterfaceKeepsScale(h, ic, uninit) ==
  Only({
    IF l1.num_row_ = original_num_row
    THEN [h |-> [h EXCEPT !.lp = l1], status |-> "kOk", ic |-> ic]
    ELSE
      Only({ Only({
        [h |-> ekkUpdateStatus(h3, "kDelRows"), status |-> "kOk",
         ic |-> IF ic.is_mask_
                THEN [ic EXCEPT !.mask_ = NewMask(@, 0, 0)]
                ELSE ic]
        : h3 \in {invalidateModelStatusSolutionAndInfo(h2)} })
        : h2 \in {[h EXCEPT
                     !.lp = l1,
                     !.model_status = "kNotset",
                     !.basis = IF @.useful
                               THEN deleteBasisRows(@, ic, original_num_row, uninit)
                               ELSE @]} })
    : original_num_row \in {h.lp.num_row_},
      l1 \in {lpDeleteRows(h.lp, ic)} })

deleteRowsInterface(h, ic, uninit) ==
  Only({
    IF l1.num_row_ = original_num_row
    THEN [h |-> [h EXCEPT !.lp = l1], status |-> "kOk", ic |-> ic]
    ELSE
      Only({ Only({
        [h |-> ekkUpdateStatus(h3, "kDelRows"), status |-> "kOk",
         ic |-> IF ic.is_mask_
                THEN [ic EXCEPT !.mask_ = NewMask(@, 0, 0)]
                ELSE ic]
        : h3 \in {invalidateModelStatusSolutionAndInfo(h2)} })
        : h2 \in {[h EXCEPT
                     !.lp = IF l1.scale_.has_scaling
                            THEN [l1 EXCEPT
                                    !.scale_.row = deleteScale(@, ic, original_num_row),
                                    !.scale_.num_row = l1.num_row_]
                            ELSE l1,
                     !.model_status = "kNotset",
                     !.basis = IF @.useful
                               THEN deleteBasisRows(@, ic, original_num_row, uninit)
                               ELSE @]} })
    : original_num_row \in {h.lp.num_row_},
      l1 \in {lpDeleteRows(h.lp, ic)} })

(***************************************************************************)
(* Changing costs, bounds and coefficients                                  *)
(***************************************************************************)
\* Position in the user's data array of the value for index i of the
\* collection: consecutive for an interval, by entry for a set, by index for
\* a mask
UsrIx(ic, i) ==
  IF ic.is_interval_ THEN i - ic.from_
  ELSE IF ic.is_set_ THEN (CHOOSE k \in 1..Len(ic.set_) : ic.set_[k] = i) - 1
  ELSE i

\* changeLpCosts / changeLpColBounds / changeLpRowBounds: overwrite the
\* entries of the collection
changeLpVector(v, ic, new) ==
  [i \in 1..Len(v) |->
     IF (i - 1) \in InCollection(ic) THEN new[UsrIx(ic, i - 1) + 1] ELSE v[i]]

changeLpCosts(l, ic, new_col_cost, inf_cost) ==
  Only({
    IF l1.has_infinite_cost_
    THEN [l1 EXCEPT !.has_infinite_cost_ = hasInfiniteCost(l1, inf_cost)]
    ELSE l1
    : l1 \in {[l EXCEPT !.col_cost_ = changeLpVector(@, ic, new_col_cost)]} })

changeCostsInterface(h, ic, cost, cost_null) ==
  IF dataSize(ic) <= 0 THEN Ret(h, "kOk")
  ELSE IF cost_null THEN Ret(h, "kError")
  ELSE
    Only({
      IF costs.status = "kError" THEN Ret(h, "kError")
      ELSE IF cs # 0 /\ ~costScaleOk(costs.cost, cs, infinite_cost)
        THEN Ret(h, "kError")
      ELSE
        Only({ Only({
          Ret(ekkUpdateStatus(h2, "kNewCosts"), "kOk")
          : h2 \in {invalidateModelStatusSolutionAndInfo(
                      [h EXCEPT !.lp = [l1 EXCEPT !.has_infinite_cost_ =
                                          @ \/ costs.has_infinite_cost],
                                !.trace = Append(@, "write")])} })
          : l1 \in {changeLpCosts(h.lp, ic,
                      [i \in 1..Len(costs.cost) |-> ScaleBy(costs.cost[i], cs)],
                      infinite_cost)} })
      : costs \in {assessCosts(cost, infinite_cost)},
        cs \in {h.lp.user_cost_scale_} })

\* New status and move of a nonbasic variable after a change of its bounds;
\* up and dn are the moves away from the lower and the upper bound
NonbasicStatus(status, lower, upper, up, dn) ==
  IF lower = upper THEN
    [status |-> IF status = "kNonbasic" THEN "kLower" ELSE status,
     move |-> kNonbasicMoveZe]
  ELSE IF ~highs_isInfinity(-lower) THEN
    IF ~highs_isInfinity(upper) THEN
      IF status = "kNonbasic" THEN
        IF Abs(lower) < Abs(upper)
        THEN [status |-> "kLower", move |-> up]
        ELSE [status |-> "kUpper", move |-> dn]
      ELSE IF status = "kLower" THEN [status |-> status, move |-> up]
      ELSE [status |-> status, move |-> dn]
    ELSE [status |-> "kLower", move |-> up]
  ELSE IF ~highs_isInfinity(upper) THEN [status |-> "kUpper", move |-> dn]
  ELSE [status |-> "kZero", move |-> kNonbasicMoveZe]

setNonbasicStatusInterface(h, ic, columns) ==
  IF ~h.basis.valid THEN h
  ELSE
    LET l == h.lp
        in == InCollection(ic)
        colNew(i) == NonbasicStatus(h.basis.col_status[i], l.col_lower_[i],
                                    l.col_upper_[i], kNonbasicMoveUp,
                                    kNonbasicMoveDn)
        rowNew(i) == NonbasicStatus(h.basis.row_status[i], l.row_lower_[i],
                                    l.row_upper_[i], kNonbasicMoveDn,
                                    kNonbasicMoveUp)
        colHit(i) == (i - 1) \in in /\ h.basis.col_status[i] # "kBasic"
        rowHit(i) == (i - 1) \in in /\ h.basis.row_status[i] # "kBasic"
    IN IF columns THEN
         LET h1 == [h EXCEPT !.basis.col_status =
                      [i \in 1..Len(@) |-> IF colHit(i) THEN colNew(i).status
                                           ELSE @[i]]]
         IN IF h.ekk.has_basis
            THEN [h1 EXCEPT
                    !.ekk.nonbasicFlag_ =
                       [i \in 1..Len(@) |->
                          IF i <= l.num_col_ /\ colHit(i)
                          THEN kNonbasicFlagTrue ELSE @[i]],
                    !.ekk.nonbasicMove_ =
                       [i \in 1..Len(@) |->
                          IF i <= l.num_col_ /\ colHit(i)
                          THEN colNew(i).move ELSE @[i]]]
            ELSE h1
       ELSE
         LET h1 == [h EXCEPT !.basis.row_status =
                      [i \in 1..Len(@) |-> IF rowHit(i) THEN rowNew(i).status
                                           ELSE @[i]]]
         IN IF h.ekk.has_basis
            THEN [h1 EXCEPT
                    !.ekk.nonbasicFlag_ =
                       [i \in 1..Len(@) |->
                          IF i > l.num_col_ /\ rowHit(i - l.num_col_)
                          THEN kNonbasicFlagTrue ELSE @[i]],
                    !.ekk.nonbasicMove_ =
                       [i \in 1..Len(@) |->
                          IF i > l.num_col_ /\ rowHit(i - l.num_col_)
                          THEN rowNew(i - l.num_col_).move ELSE @[i]]]
            ELSE h1

\* changeColBoundsInterface without the invalidation of the derived state
changeColBoundsInterfaceKeepsStatus(h, ic, col_lower, col_upper, data_null) ==
  IF dataSize(ic) <= 0 THEN Ret(h, "kOk")
  ELSE IF data_null THEN Ret(h, "kError")
  ELSE
    Only({
      IF bounds.status = "kError" THEN Ret(h, "kError")
      ELSE IF bs # 0 /\ ~boundScaleOk(bounds.lower, bounds.upper, bs,
                                       infinite_bound)
        THEN Ret(h, "kError")
      ELSE
        Only({ Only({ Only({
          Ret(ekkUpdateStatus(h2, "kNewBounds"), "kOk")
          : h2 \in {setNonbasicStatusInterface(h1, ic, TRUE)} })
          : h1 \in {[h EXCEPT
                       !.lp.col_lower_ = changeLpVector(@, ic, lower),
                       !.lp.col_upper_ = changeLpVector(@, ic, upper),
                       !.trace = Append(@, "write")]} })
          : lower \in {[i \in 1..Len(bounds.lower) |->
                          ScaleBy(bounds.lower[i], bs)]},
            upper \in {[i \in 1..Len(bounds.upper) |->
                          ScaleBy(bounds.upper[i], bs)]} })
      : bounds \in {assessBounds(col_lower, col_upper, infinite_bound)},
        bs \in {h.lp.user_bound_scale_} })

changeColBoundsInterface(h, ic, col_lower, col_upper, data_null) ==
  IF dataSize(ic) <= 0 THEN Ret(h, "kOk")
  ELSE IF data_null THEN Ret(h, "kError")
  ELSE
    Only({
      IF bounds.status = "kError" THEN Ret(h, "kError")
      ELSE IF bs # 0 /\ ~boundScaleOk(bounds.lower, bounds.upper, bs,
                                       infinite_bound)
        THEN Ret(h, "kError")
      ELSE
        Only({ Only({ Only({ Only({
          Ret(ekkUpdateStatus(h3, "kNewBounds"), "kOk")
          : h3 \in {invalidateModelStatusSolutionAndInfo(h2)} })
          : h2 \in {setNonbasicStatusInterface(h1, ic, TRUE)} })
          : h1 \in {[h EXCEPT
                       !.lp.col_lower_ = changeLpVector(@, ic, lower),
                       !.lp.col_upper_ = changeLpVector(@, ic, upper),
                       !.trace = Append(@, "write")]} })
          : lower \in {[i \in 1..Len(bounds.lower) |->
                          ScaleBy(bounds.lower[i], bs)]},
            upper \in {[i \in 1..Len(bounds.upper) |->
                          ScaleBy(bounds.upper[i], bs)]} })
      : bounds \in {assessBounds(col_lower, col_upper, infinite_bound)},
        bs \in {h.lp.user_bound_scale_} })

changeRowBoundsInterface(h, ic, row_lower, row_upper, data_null) ==
  IF dataSize(ic) <= 0 THEN Ret(h, "kOk")
  ELSE IF data_null THEN Ret(h, "kError")
  ELSE
    Only({
      IF bounds.status = "kError" THEN Ret(h, "kError")
      ELSE IF bs # 0 /\ ~boundScaleOk(bounds.lower, bounds.upper, bs,
                                       infinite_bound)
        THEN Ret(h, "kError")
      ELSE
        Only({ Only({ Only({ Only({
          Ret(ekkUpdateStatus(h3, "kNewBounds"), "kOk")
          : h3 \in {invalidateModelStatusSolutionAndInfo(h2)} })
          : h2 \in {setNonbasicStatusInterface(h1, ic, FALSE)} })
          : h1 \in {[h EXCEPT
                       !.lp.row_lower_ = changeLpVector(@, ic, lower),
                       !.lp.row_upper_ = changeLpVector(@, ic, upper),
                       !.trace = Append(@, "write")]} })
          : lower \in {[i \in 1..Len(bounds.lower) |->
                          ScaleBy(bounds.lower[i], bs)]},
            upper \in {[i \in 1..Len(bounds.upper) |->
                          ScaleBy(bounds.upper[i], bs)]} })
      : bounds \in {assessBounds(row_lower, row_upper, infinite_bound)},
        bs \in {h.lp.user_bound_scale_} })

\* changeLpMatrixCoefficient: a zero new value removes the entry
changeLpMatrixCoefficient(l, row, col, new_value, zero_new_value) ==
  LET rest == {e \in l.a_matrix_ : ~(e[1] = row /\ e[2] = col)}
  IN [l EXCEPT !.a_matrix_ =
        IF zero_new_value THEN rest ELSE rest \cup {<<row, col, new_value>>}]

\* oob_basic is the outcome of the comparison when col_status has no entry
\* for ext_col, so that the read is outside the vector
\* changeCoefficientInterface that views the basis as alien whatever the
\* status of the column
changeCoefficientInterfaceAlien(h, ext_row, ext_col, ext_new_value, oob_basic) ==
  LET zero_new_value == Abs(ext_new_value) <= small_matrix_value
      h1 == [h EXCEPT !.lp = changeLpMatrixCoefficient(h.lp, ext_row, ext_col,
                                                      ext_new_value,
                                                      zero_new_value)]
      h2 == invalidateModelStatusSolutionAndInfo(h1)
      h3 == [h2 EXCEPT !.basis.was_alien = TRUE, !.basis.alien = TRUE]
  IN Ret(ekkUpdateStatus(h3, "kNewRows"), "kOk")

changeCoefficientInterface(h, ext_row, ext_col, ext_new_value, oob_basic) ==
  LET zero_new_value == Abs(ext_new_value) <= small_matrix_value
      h1 == [h EXCEPT !.lp = changeLpMatrixCoefficient(h.lp, ext_row, ext_col,
                                                      ext_new_value,
                                                      zero_new_value)]
      basic_column == IF ext_col < Len(h.basis.col_status)
                      THEN h.basis.col_status[ext_col + 1] = "kBasic"
                      ELSE oob_basic
      h2 == invalidateModelStatusSolutionAndInfo(h1)
      h3 == IF basic_column
            THEN [h2 EXCEPT !.basis.was_alien = TRUE, !.basis.alien = TRUE]
            ELSE h2
  IN Ret(ekkUpdateStatus(h3, "kNewRows"), "kOk")

(***************************************************************************)
(* Highs::scaleColInterface and Highs::scaleRowInterface                    *)
(***************************************************************************)
\* x * s and x / s for a finite scale s; an infinite x stays infinite
Times(x, s) ==
  IF Abs(x) >= kHighsInf
  THEN (IF (x > 0) = (s > 0) THEN kHighsInf ELSE -kHighsInf)
  ELSE (x * s) \div One
Over(x, s) ==
  IF Abs(x) >= kHighsInf
  THEN (IF (x > 0) = (s > 0) THEN kHighsInf ELSE -kHighsInf)
  ELSE (x * One) \div s

\* applyScalingToLpCol: the entries and the cost of the column are
\* multiplied by the scale, its bounds divided by it and swapped when the
\* scale is negative
applyScalingToLpCol(l, col, colScale) ==
  IF col < 0 \/ col >= l.num_col_ \/ colScale = 0 THEN [l |-> l, status |-> "kError"]
  ELSE [l |-> [l EXCEPT
                 !.a_matrix_ = {IF e[2] = col
                                THEN <<e[1], e[2], Times(e[3], colScale)>>
                                ELSE e : e \in @},
                 !.col_cost_[col + 1] = Times(@, colScale),
                 !.col_lower_[col + 1] =
                    IF colScale > 0 THEN Over(@, colScale)
                    ELSE Over(l.col_upper_[col + 1], colScale),
                 !.col_upper_[col + 1] =
                    IF colScale > 0 THEN Over(@, colScale)
                    ELSE Over(l.col_lower_[col + 1], colScale)],
        status |-> "kOk"]

\* applyScalingToLpRow: the entries and the bounds of the row are multiplied
\* by the scale, the bounds swapped when the scale is negative
applyScalingToLpRow(l, row, rowScale) ==
  IF row < 0 \/ row >= l.num_row_ \/ rowScale = 0 THEN [l |-> l, status |-> "kError"]
  ELSE [l |-> [l EXCEPT
                 !.a_matrix_ = {IF e[1] = row
                                THEN <<e[1], e[2], Times(e[3], rowScale)>>
                                ELSE e : e \in @},
                 !.row_lower_[row + 1] =
                    IF rowScale > 0 THEN Times(@, rowScale)
                    ELSE Times(l.row_upper_[row + 1], rowScale),
                 !.row_upper_[row + 1] =
                    IF rowScale > 0 THEN Times(@, rowScale)
                    ELSE Times(l.row_lower_[row + 1], rowScale)],
        status |-> "kOk"]

\* Lower becomes Upper and Upper becomes Lower
FlipStatus(status) ==
  IF status = "kLower" THEN "kUpper"
  ELSE IF status = "kUpper" THEN "kLower" ELSE status

\* Up becomes Dn and Dn becomes Up
FlipMove(move) ==
  IF move = kNonbasicMoveUp THEN kNonbasicMoveDn
  ELSE IF move = kNonbasicMoveDn THEN kNonbasicMoveUp ELSE move

\* scaleColInterface that notifies the engine of new bounds
scaleColInterfaceNewBounds(h, col, scale_value) ==
  IF col < 0 THEN Ret(h, "kError")
  ELSE IF col >= h.lp.num_col_ THEN Ret(h, "kError")
  ELSE IF scale_value = 0 THEN Ret(h, "kError")
  ELSE
    Only({
      IF applied.status = "kError" THEN Ret(h, "kError")
      ELSE
        Only({ Only({
          Ret(ekkUpdateStatus(h2, "kNewBounds"), "kOk")
          : h2 \in {invalidateModelStatusSolutionAndInfo(h1)} })
          : h1 \in {[h EXCEPT
                       !.lp = applied.l,
                       !.trace = Append(@, "write"),
                       !.basis.col_status =
                          IF scale_value < 0 /\ h.basis.valid
                          THEN [@ EXCEPT ![col + 1] = FlipStatus(@)] ELSE @,
                       !.ekk.nonbasicMove_ =
                          IF /\ h.ekk.initialised_for_solve
                             /\ scale_value < 0 /\ h.ekk.has_basis
                          THEN [@ EXCEPT ![col + 1] = FlipMove(@)] ELSE @]} })
      : applied \in {applyScalingToLpCol(h.lp, col, scale_value)} })

scaleColInterface(h, col, scale_value) ==
  IF col < 0 THEN Ret(h, "kError")
  ELSE IF col >= h.lp.num_col_ THEN Ret(h, "kError")
  ELSE IF scale_value = 0 THEN Ret(h, "kError")
  ELSE
    Only({
      IF applied.status = "kError" THEN Ret(h, "kError")
      ELSE
        Only({ Only({
          Ret(ekkUpdateStatus(h2, "kScaledCol"), "kOk")
          : h2 \in {invalidateModelStatusSolutionAndInfo(h1)} })
          : h1 \in {[h EXCEPT
                       !.lp = applied.l,
                       !.trace = Append(@, "write"),
                       !.basis.col_status =
                          IF scale_value < 0 /\ h.basis.valid
                          THEN [@ EXCEPT ![col + 1] = FlipStatus(@)] ELSE @,
                       !.ekk.nonbasicMove_ =
                          IF /\ h.ekk.initialised_for_solve
                             /\ scale_value < 0 /\ h.ekk.has_basis
                          THEN [@ EXCEPT ![col + 1] = FlipMove(@)] ELSE @]} })
      : applied \in {applyScalingToLpCol(h.lp, col, scale_value)} })

scaleRowInterface(h, row, scale_value) ==
  IF row < 0 THEN Ret(h, "kError")
  ELSE IF row >= h.lp.num_row_ THEN Ret(h, "kError")
  ELSE IF scale_value = 0 THEN Ret(h, "kError")
  ELSE
    Only({
      IF applied.status = "kError" THEN Ret(h, "kError")
      ELSE
        Only({ Only({
          Ret(ekkUpdateStatus(h2, "kScaledRow"), "kOk")
          : h2 \in {invalidateModelStatusSolutionAndInfo(h1)} })
          : h1 \in {[h EXCEPT
                       !.lp = applied.l,
                       !.trace = Append(@, "write"),
                       !.basis.row_status =
                          IF scale_value < 0 /\ h.basis.valid
                          THEN [@ EXCEPT ![row + 1] = FlipStatus(@)] ELSE @,
                       !.ekk.nonbasicMove_ =
                          IF /\ h.ekk.initialised_for_solve
                             /\ scale_value < 0 /\ h.ekk.has_basis
                          THEN [@ EXCEPT ![h.lp.num_col_ + row + 1] = FlipMove(@)]
                          ELSE @]} })
      : applied \in {applyScalingToLpRow(h.lp, row, scale_value)} })

(***************************************************************************)
(* Infinite costs: Highs::handleInfCost and Highs::restoreInfCost           *)
(***************************************************************************)
\* Bounds of column iCol as handleInfCost sees them
InfCostLower(l, iCol) ==
  IF isMip(l) /\ l.integrality_[iCol + 1] = "kInteger"
  THEN Ceil(l.col_lower_[iCol + 1]) ELSE l.col_lower_[iCol + 1]
InfCostUpper(l, iCol) ==
  IF isMip(l) /\ l.integrality_[iCol + 1] = "kInteger"
  THEN Floor(l.col_upper_[iCol + 1]) ELSE l.col_upper_[iCol + 1]

IsInfCost(l, iCol) ==
  ~(l.col_cost_[iCol + 1] > -infinite_cost /\ l.col_cost_[iCol + 1] < infinite_cost)

\* TRUE when the column is to be fixed at its upper bound
FixAtUpper(l, iCol) ==
  (l.col_cost_[iCol + 1] <= -infinite_cost) = (l.sense_ = "kMinimize")

RECURSIVE InfCostMods(_, _)
\* The records pushed on the modifications log, in column order
InfCostMods(l, iCol) ==
  IF iCol >= l.num_col_ THEN <<>>
  ELSE (IF IsInfCost(l, iCol)
        THEN <<[index |-> iCol, cost |-> l.col_cost_[iCol + 1],
                lower |-> InfCostLower(l, iCol),
                upper |-> InfCostUpper(l, iCol)]>>
        ELSE <<>>) \o InfCostMods(l, iCol + 1)

handleInfCost(h) ==
  LET l == h.lp
      cols == {iCol \in 0..(l.num_col_ - 1) : IsInfCost(l, iCol)}
      cannot(iCol) == IF FixAtUpper(l, iCol)
                      THEN ~(InfCostUpper(l, iCol) < kHighsInf)
                      ELSE ~(InfCostLower(l, iCol) > -kHighsInf)
  IN IF ~l.has_infinite_cost_ THEN Ret(h, "kOk")
     ELSE IF \E iCol \in cols : cannot(iCol) THEN Ret(h, "kError")
     ELSE Ret([h EXCEPT
            !.lp.col_lower_ = [i \in 1..Len(@) |->
                 IF (i - 1) \in cols /\ FixAtUpper(l, i - 1)
                 THEN InfCostUpper(l, i - 1) ELSE @[i]],
            !.lp.col_upper_ = [i \in 1..Len(@) |->
                 IF (i - 1) \in cols /\ ~FixAtUpper(l, i - 1)
                 THEN InfCostLower(l, i - 1) ELSE @[i]],
            !.lp.col_cost_ = [i \in 1..Len(@) |->
                 IF (i - 1) \in cols THEN 0 ELSE @[i]],
            !.lp.mods_ = @ \o InfCostMods(l, 0),
            !.lp.has_infinite_cost_ = FALSE], "kOk")

\* value * cost for an infinite cost
InfProduct(value, cost) ==
  IF (value > 0) = (cost > 0) THEN kHighsInf ELSE -kHighsInf

RECURSIVE restoreInfCostLoop(_, _)
restoreInfCostLoop(h, ix) ==
  IF ix > Len(h.lp.mods_) THEN h
  ELSE
    Only({ Only({ Only({ Only({
      restoreInfCostLoop(h3, ix + 1)
      : h3 \in {[h2 EXCEPT !.lp.col_cost_[m.index + 1] = m.cost,
                           !.lp.col_lower_[m.index + 1] = m.lower,
                           !.lp.col_upper_[m.index + 1] = m.upper]} })
      : h2 \in {IF value # 0
                THEN [h1 EXCEPT !.info.objective_function_value =
                        InfProduct(value, m.cost)]
                ELSE h1} })
      : value \in {IF h.solution.value_valid
                   THEN h.solution.col_value[m.index + 1] ELSE 0},
        h1 \in {IF h.basis.valid
                THEN [h EXCEPT !.basis.col_status[m.index + 1] =
                        IF h.lp.col_lower_[m.index + 1] = m.lower
                        THEN "kLower" ELSE "kUpper"]
                ELSE h} })
      : m \in {h.lp.mods_[ix]} })

\* Highs::setHighsModelStatusAndClearSolutionAndBasis
setHighsModelStatusAndClearSolutionAndBasis(h, status) ==
  [invalidateModelStatusSolutionAndInfo(h) EXCEPT
     !.model_status = status,
     !.basis.valid = FALSE, !.basis.useful = FALSE,
     !.basis.alien = TRUE, !.basis.was_alien = TRUE]

restoreInfCost(h, return_status) ==
  IF Len(h.lp.mods_) <= 0 THEN Ret(h, return_status)
  ELSE
    Only({
      IF h2.model_status = "kInfeasible"
      THEN Ret(setHighsModelStatusAndClearSolutionAndBasis(h2, "kUnknown"),
               "kWarning")
      ELSE Ret(h2, return_status)
      : h2 \in {[restoreInfCostLoop(h, 1) EXCEPT
                   !.lp.has_infinite_cost_ = TRUE]} })

\* HighsLp::unapplyMods, as far as the infinite-cost records go: the log is
\* emptied once the modifications have been undone
unapplyMods(h) == [h EXCEPT !.lp.mods_ = <<>>]

(***************************************************************************)
(* Highs::optionChangeAction                                                *)
(***************************************************************************)
userBoundScaleOk(l, user_bound_scale, inf_bound) ==
  LET dl == user_bound_scale - l.user_bound_scale_
  IN /\ boundScaleOk(l.col_lower_, l.col_upper_, dl, inf_bound)
     /\ boundScaleOk(l.row_lower_, l.row_upper_, dl, inf_bound)

userCostScaleOk(l, user_cost_scale, inf_cost) ==
  costScaleOk(l.col_cost_, user_cost_scale - l.user_cost_scale_, inf_cost)

userBoundScale(l, user_bound_scale) ==
  LET dl == user_bound_scale - l.user_bound_scale_
      Sc(v) == [i \in 1..Len(v) |-> ScaleBy(v[i], dl)]
  IN IF dl = 0 THEN l
     ELSE [l EXCEPT !.col_lower_ = Sc(@), !.col_upper_ = Sc(@),
                    !.row_lower_ = Sc(@), !.row_upper_ = Sc(@),
                    !.user_bound_scale_ = user_bound_scale]

userCostScale(l, user_cost_scale) ==
  LET dl == user_cost_scale - l.user_cost_scale_
  IN IF dl = 0 THEN l
     ELSE [l EXCEPT !.col_cost_ = [i \in 1..Len(@) |-> ScaleBy(@[i], dl)],
                    !.user_cost_scale_ = user_cost_scale]

kHighsIllegalInfeasibilityCount == -1

\* optionChangeBound that hands the change of exponent, and not the new
\* exponent, to HighsLp::userBoundScale
optionChangeBoundPassesDl(h, user_bound_scale_ok) ==
  LET is_mip == isMip(h.lp)
      changed == h.options.user_bound_scale # h.lp.user_bound_scale_
      dl == IF user_bound_scale_ok /\ changed
            THEN h.options.user_bound_scale - h.lp.user_bound_scale_ ELSE 0
      h0 == IF ~user_bound_scale_ok
            THEN [h EXCEPT !.options.user_bound_scale = h.lp.user_bound_scale_]
            ELSE h
      new_max == ScaleBy(h.info.max_primal_infeasibility, dl)
      h1 == IF new_max > primal_feasibility_tolerance
            THEN IF h0.info.num_primal_infeasibilities = 0 /\ dl > 0
                 THEN [h0 EXCEPT
                         !.model_status = "kNotset",
                         !.info.primal_solution_status = "kSolutionStatusInfeasible",
                         !.info.num_primal_infeasibilities =
                            kHighsIllegalInfeasibilityCount]
                 ELSE h0
            ELSE IF ~is_mip /\ h0.info.primal_solution_status =
                                 "kSolutionStatusInfeasible"
                 THEN [h0 EXCEPT
                         !.info.primal_solution_status = "kSolutionStatusFeasible",
                         !.info.num_primal_infeasibilities = 0]
                 ELSE h0
      h2 == IF is_mip /\ dl # 0
            THEN [h1 EXCEPT
                    !.model_status = "kNotset",
                    !.info.primal_solution_status =
                       IF dl < 0 THEN "kSolutionStatusInfeasible" ELSE @]
            ELSE h1
  IN IF dl # 0
     THEN [h2 EXCEPT
             !.info.objective_function_value = ScaleBy(@, dl),
             !.info.max_primal_infeasibility = ScaleBy(@, dl),
             !.info.sum_primal_infeasibilities = ScaleBy(@, dl),
             !.solution.col_value = [i \in 1..Len(@) |-> ScaleBy(@[i], dl)],
             !.solution.row_value = [i \in 1..Len(@) |-> ScaleBy(@[i], dl)],
             !.lp = userBoundScale(@, dl)]
     ELSE h2

\* The bound-scale half: lines 3013-3081
optionChangeBound(h, user_bound_scale_ok) ==
  LET is_mip == isMip(h.lp)
      changed == h.options.user_bound_scale # h.lp.user_bound_scale_
      dl == IF user_bound_scale_ok /\ changed
            THEN h.options.user_bound_scale - h.lp.user_bound_scale_ ELSE 0
      h0 == IF ~user_bound_scale_ok
            THEN [h EXCEPT !.options.user_bound_scale = h.lp.user_bound_scale_]
            ELSE h
      new_max == ScaleBy(h.info.max_primal_infeasibility, dl)
      h1 == IF new_max > primal_feasibility_tolerance
            THEN IF h0.info.num_primal_infeasibilities = 0 /\ dl > 0
                 THEN [h0 EXCEPT
                         !.model_status = "kNotset",
                         !.info.primal_solution_status = "kSolutionStatusInfeasible",
                         !.info.num_primal_infeasibilities =
                            kHighsIllegalInfeasibilityCount]
                 ELSE h0
            ELSE IF ~is_mip /\ h0.info.primal_solution_status =
                                 "kSolutionStatusInfeasible"
                 THEN [h0 EXCEPT
                         !.info.primal_solution_status = "kSolutionStatusFeasible",
                         !.info.num_primal_infeasibilities = 0]
                 ELSE h0
      h2 == IF is_mip /\ dl # 0
            THEN [h1 EXCEPT
                    !.model_status = "kNotset",
                    !.info.primal_solution_status =
                       IF dl < 0 THEN "kSolutionStatusInfeasible" ELSE @]
            ELSE h1
  IN IF dl # 0
     THEN [h2 EXCEPT
             !.info.objective_function_value = ScaleBy(@, dl),
             !.info.max_primal_infeasibility = ScaleBy(@, dl),
             !.info.sum_primal_infeasibilities = ScaleBy(@, dl),
             !.solution.col_value = [i \in 1..Len(@) |-> ScaleBy(@[i], dl)],
             !.solution.row_value = [i \in 1..Len(@) |-> ScaleBy(@[i], dl)],
             !.lp = userBoundScale(@, h2.options.user_bound_scale)]
     ELSE h2

\* The cost-scale half: lines 3082-3142
optionChangeCost(h, user_cost_scale_ok) ==
  LET is_mip == isMip(h.lp)
      changed == h.options.user_cost_scale # h.lp.user_cost_scale_
      dl == IF user_cost_scale_ok /\ changed
            THEN h.options.user_cost_scale - h.lp.user_cost_scale_ ELSE 0
      h0 == IF ~user_cost_scale_ok
            THEN [h EXCEPT !.options.user_cost_scale = h.lp.user_cost_scale_]
            ELSE h
      new_max == ScaleBy(h.info.max_dual_infeasibility, dl)
      h1 == IF is_mip THEN h0
            ELSE IF new_max > dual_feasibility_tolerance
            THEN IF h0.info.num_dual_infeasibilities = 0 /\ dl > 0
                 THEN [h0 EXCEPT
                         !.model_status = "kNotset",
                         !.info.dual_solution_status =
                            IF @ = "kSolutionStatusFeasible"
                            THEN "kSolutionStatusInfeasible" ELSE @,
                         !.info.num_dual_infeasibilities =
                            kHighsIllegalInfeasibilityCount]
                 ELSE h0
            ELSE IF h0.info.dual_solution_status = "kSolutionStatusInfeasible"
                 THEN [h0 EXCEPT
                         !.info.dual_solution_status = "kSolutionStatusFeasible",
                         !.info.num_dual_infeasibilities = 0]
                 ELSE h0
  IN IF dl # 0
     THEN [h1 EXCEPT
             !.model_status = IF is_mip THEN "kNotset" ELSE @,
             !.info.objective_function_value = ScaleBy(@, dl),
             !.info.max_dual_infeasibility = ScaleBy(@, dl),
             !.info.sum_dual_infeasibilities = ScaleBy(@, dl),
             !.solution.col_dual = [i \in 1..Len(@) |-> ScaleBy(@[i], dl)],
             !.solution.row_dual = [i \in 1..Len(@) |-> ScaleBy(@[i], dl)],
             !.lp = userCostScale(@, h1.options.user_cost_scale)]
     ELSE h1

\* optionChangeAction whose status forgets the cost scale
optionChangeActionBoundStatus(h) ==
  LET user_bound_scale_ok ==
        \/ h.options.user_bound_scale = h.lp.user_bound_scale_
        \/ userBoundScaleOk(h.lp, h.options.user_bound_scale, infinite_bound)
      h1 == optionChangeBound(h, user_bound_scale_ok)
      user_cost_scale_ok ==
        \/ h1.options.user_cost_scale = h1.lp.user_cost_scale_
        \/ userCostScaleOk(h1.lp, h1.options.user_cost_scale, infinite_cost)
      h2 == optionChangeCost(h1, user_cost_scale_ok)
  IN IF ~user_bound_scale_ok THEN Ret(h2, "kError") ELSE Ret(h2, "kOk")

optionChangeAction(h) ==
  LET user_bound_scale_ok ==
        \/ h.options.user_bound_scale = h.lp.user_bound_scale_
        \/ userBoundScaleOk(h.lp, h.options.user_bound_scale, infinite_bound)
      h1 == optionChangeBound(h, user_bound_scale_ok)
      user_cost_scale_ok ==
        \/ h1.options.user_cost_scale = h1.lp.user_cost_scale_
        \/ userCostScaleOk(h1.lp, h1.options.user_cost_scale, infinite_cost)
      h2 == optionChangeCost(h1, user_cost_scale_ok)
  IN IF ~user_bound_scale_ok \/ ~user_cost_scale_ok
     THEN Ret(h2, "kError") ELSE Ret(h2, "kOk")

(***************************************************************************)
(* Highs::changeIntegralityInterface                                        *)
(***************************************************************************)
changeIntegralityInterface(h, ic, integrality, data_null) ==
  IF dataSize(ic) <= 0 THEN Ret(h, "kOk")
  ELSE IF data_null THEN Ret(h, "kError")
  ELSE Ret([h EXCEPT
              !.lp.integrality_ =
                 changeLpVector(Resize(@, h.lp.num_col_, "kContinuous"), ic,
                                integrality),
              !.model_status = "kNotset"], "kOk")

(***************************************************************************)
(* The calls of the Highs class that elasticityFilter makes: each builds    *)
(* the index collection for its interval and hands it to the interface     *)
(***************************************************************************)
\* create(index_collection, from, to, dimension) accepts the interval
IntervalOk(dim, from, to) == from >= 0 /\ to < dim

changeColsCost(h, from_col, to_col, cost) ==
  IF ~IntervalOk(h.lp.num_col_, from_col, to_col) THEN Ret(h, "kError")
  ELSE changeCostsInterface(h, Interval(h.lp.num_col_, from_col, to_col),
                            cost, FALSE)

changeColsBounds(h, from_col, to_col, lower, upper) ==
  IF ~IntervalOk(h.lp.num_col_, from_col, to_col) THEN Ret(h, "kError")
  ELSE changeColBoundsInterface(h, Interval(h.lp.num_col_, from_col, to_col),
                                lower, upper, FALSE)

changeColsIntegrality(h, from_col, to_col, integrality) ==
  IF ~IntervalOk(h.lp.num_col_, from_col, to_col) THEN Ret(h, "kError")
  ELSE changeIntegralityInterface(h, Interval(h.lp.num_col_, from_col, to_col),
                                  integrality, FALSE)

deleteCols(h, from_col, to_col) ==
  IF ~IntervalOk(h.lp.num_col_, from_col, to_col) THEN Ret(h, "kError")
  ELSE Ret(deleteColsInterface(h, Interval(h.lp.num_col_, from_col, to_col),
                               [basic |-> FALSE, nonbasic |-> FALSE]).h, "kOk")

deleteRows(h, from_row, to_row) ==
  IF ~IntervalOk(h.lp.num_row_, from_row, to_row) THEN Ret(h, "kError")
  ELSE Ret(deleteRowsInterface(h, Interval(h.lp.num_row_, from_row, to_row),
                               [basic |-> FALSE, nonbasic |-> FALSE]).h, "kOk")

(***************************************************************************)
(* Highs::elasticityFilter: construction of the e-LP                        *)
(***************************************************************************)
\* The penalties of a call.  NoPenalties stands for a null pointer
NoPenalties == <<>>

lower_penalty(P, iCol) ==
  IF P.local_lower_penalty # NoPenalties THEN P.local_lower_penalty[iCol + 1]
  ELSE P.global_lower_penalty
upper_penalty(P, iCol) ==
  IF P.local_upper_penalty # NoPenalties THEN P.local_upper_penalty[iCol + 1]
  ELSE P.global_upper_penalty
rhs_penalty(P, iRow) ==
  IF P.local_rhs_penalty # NoPenalties THEN P.local_rhs_penalty[iRow + 1]
  ELSE P.global_rhs_penalty

has_elastic_columns(P) ==
  \/ P.local_lower_penalty # NoPenalties \/ P.global_lower_penalty >= 0
  \/ P.local_upper_penalty # NoPenalties \/ P.global_upper_penalty >= 0
has_elastic_rows(P) ==
  P.local_rhs_penalty # NoPenalties \/ P.global_rhs_penalty >= 0

RECURSIVE colElastic(_, _, _, _)
\* The loop over the columns, lines 2152-2220: e is the data gathered so far
colElastic(l, P, iCol, e) ==
  IF iCol >= l.num_col_ THEN e
  ELSE
    Only({ Only({
      IF lower <= -kHighsInf /\ upper >= kHighsInf
        THEN colElastic(l, P, iCol + 1, e0)
      ELSE IF lower_penalty(P, iCol) < 0 /\ upper >= kHighsInf
        THEN colElastic(l, P, iCol + 1, e0)
      ELSE IF lower <= -kHighsInf /\ upper_penalty(P, iCol) < 0
        THEN colElastic(l, P, iCol + 1, e0)
      ELSE
        Only({ Only({ Only({
          colElastic(l, P, iCol + 1, e3)
          : e3 \in {[e2 EXCEPT
                       !.erow_lower = Append(@, lower),
                       !.erow_upper = Append(@, upper),
                       !.erow = Append(@,
                          <<<<iCol, One>>>>
                          \o (IF has_lower THEN <<<<e0.evar_ix, One>>>> ELSE <<>>)
                          \o (IF has_upper THEN <<<<e1.evar_ix, -One>>>>
                              ELSE <<>>))]} })
          : e2 \in {IF has_upper
                    THEN [e1 EXCEPT
                            !.col_of_ecol = Append(@, iCol),
                            !.bound_of_col_of_ecol = Append(@, upper),
                            !.col_upper[iCol + 1] = kHighsInf,
                            !.ecol_cost = Append(@, upper_penalty(P, iCol)),
                            !.evar_ix = @ + 1]
                    ELSE e1} })
          : e1 \in {IF has_lower
                    THEN [e0 EXCEPT
                            !.col_of_ecol = Append(@, iCol),
                            !.bound_of_col_of_ecol = Append(@, lower),
                            !.col_lower[iCol + 1] = -kHighsInf,
                            !.ecol_cost = Append(@, lower_penalty(P, iCol)),
                            !.evar_ix = @ + 1]
                    ELSE e0} })
      : e0 \in {[e EXCEPT !.col_lower = Append(@, lower),
                          !.col_upper = Append(@, upper)]},
        has_lower \in {lower > -kHighsInf /\ lower_penalty(P, iCol) >= 0},
        has_upper \in {upper < kHighsInf /\ upper_penalty(P, iCol) >= 0} })
      : lower \in {l.col_lower_[iCol + 1]},
        upper \in {l.col_upper_[iCol + 1]} })

RECURSIVE rowElasticAll(_, _, _, _)
\* The loop over the rows that makes the rows of negative penalty elastic too
rowElasticAll(l, P, iRow, e) ==
  IF iRow >= e.original_num_row THEN e
  ELSE
    Only({ Only({ Only({
      rowElasticAll(l, P, iRow + 1, e2)
      : e2 \in {IF upper < kHighsInf
                THEN [e1 EXCEPT !.row_of_ecol = Append(@, iRow),
                                !.bound_of_row_of_ecol = Append(@, upper),
                                !.ecol = Append(@, <<<<iRow, -One>>>>),
                                !.ecol_cost = Append(@, penalty)]
                ELSE e1} })
      : e1 \in {IF lower > -kHighsInf
                THEN [e EXCEPT !.row_of_ecol = Append(@, iRow),
                               !.bound_of_row_of_ecol = Append(@, lower),
                               !.ecol = Append(@, <<<<iRow, One>>>>),
                               !.ecol_cost = Append(@, penalty)]
                ELSE e} })
      : lower \in {l.row_lower_[iRow + 1]},
        upper \in {l.row_upper_[iRow + 1]},
        penalty \in {rhs_penalty(P, iRow)} })

RECURSIVE rowElastic(_, _, _, _)
\* The loop over the rows, lines 2278-2314
rowElastic(l, P, iRow, e) ==
  IF iRow >= e.original_num_row THEN e
  ELSE IF rhs_penalty(P, iRow) < 0 THEN rowElastic(l, P, iRow + 1, e)
  ELSE
    Only({ Only({ Only({
      rowElastic(l, P, iRow + 1, e2)
      : e2 \in {IF upper < kHighsInf
                THEN [e1 EXCEPT !.row_of_ecol = Append(@, iRow),
                                !.bound_of_row_of_ecol = Append(@, upper),
                                !.ecol = Append(@, <<<<iRow, -One>>>>),
                                !.ecol_cost = Append(@, penalty)]
                ELSE e1} })
      : e1 \in {IF lower > -kHighsInf
                THEN [e EXCEPT !.row_of_ecol = Append(@, iRow),
                               !.bound_of_row_of_ecol = Append(@, lower),
                               !.ecol = Append(@, <<<<iRow, One>>>>),
                               !.ecol_cost = Append(@, penalty)]
                ELSE e} })
      : lower \in {l.row_lower_[iRow + 1]},
        upper \in {l.row_upper_[iRow + 1]},
        penalty \in {rhs_penalty(P, iRow)} })

\* Lines 2105-2342: the copies of the original data and the e-LP.  The
\* result holds the Highs object and the local variables of the call
elasticityFilterBuild(h, P, get_infeasible_row) ==
  Only({ Only({ Only({ Only({ Only({ Only({
    [h |-> h7,
     ef |-> [active |-> TRUE,
             get_infeasible_row |-> get_infeasible_row,
             has_elastic_columns |-> has_elastic_columns(P),
             has_elastic_rows |-> has_elastic_rows(P),
             original_num_col |-> h.lp.num_col_,
             original_num_row |-> h.lp.num_row_,
             original_col_cost |-> h.lp.col_cost_,
             original_col_lower |-> h.lp.col_lower_,
             original_col_upper |-> h.lp.col_upper_,
             original_integrality |-> h.lp.integrality_,
             col_ecol_offset |-> h2.lp.num_col_,
             row_ecol_offset |-> h6.lp.num_col_,
             col_of_ecol |-> IF has_elastic_columns(P) THEN ce.col_of_ecol
                             ELSE <<>>,
             row_of_ecol |-> IF has_elastic_rows(P) THEN re.row_of_ecol
                             ELSE <<>>,
             solved |-> FALSE,
             solution |-> NoSolution]]
    : h7 \in {IF has_elastic_rows(P)
              THEN addColsInterface(h6, Len(re.ecol), re.ecol_cost,
                                    Const(Len(re.ecol), 0),
                                    Const(Len(re.ecol), kHighsInf),
                                    NumNz(re.ecol), re.ecol, FALSE, FALSE).h
              ELSE h6} })
    : re \in {rowElastic(h6.lp, P, 0,
                [original_num_row |-> h.lp.num_row_, row_of_ecol |-> <<>>,
                 bound_of_row_of_ecol |-> <<>>, ecol |-> <<>>,
                 ecol_cost |-> <<>>])} })
    : h6 \in {IF has_elastic_columns(P)
              THEN
                Only({ Only({
                  addRowsInterface(h4, Len(ce.erow), ce.erow_lower,
                                   ce.erow_upper, NumNz(ce.erow), ce.erow,
                                   FALSE, FALSE).h
                  : h4 \in {addColsInterface(h3, Len(ce.col_of_ecol),
                              ce.ecol_cost,
                              Const(Len(ce.col_of_ecol), 0),
                              Const(Len(ce.col_of_ecol), kHighsInf), 0,
                              Const(Len(ce.col_of_ecol), <<>>),
                              FALSE, TRUE).h} })
                  : h3 \in {changeColsBounds(h2, 0, h2.lp.num_col_ - 1,
                                             ce.col_lower, ce.col_upper).h} })
              ELSE h2} })
    : ce \in {colElastic(h2.lp, P, 0,
                [col_lower |-> <<>>, col_upper |-> <<>>, col_of_ecol |-> <<>>,
                 bound_of_col_of_ecol |-> <<>>, ecol_cost |-> <<>>,
                 erow_lower |-> <<>>, erow_upper |-> <<>>, erow |-> <<>>,
                 evar_ix |-> h2.lp.num_col_])} })
    : h2 \in {IF get_infeasible_row /\ Len(h1.lp.integrality_) # 0
              THEN changeColsIntegrality(h1, 0, h1.lp.num_col_ - 1,
                     Const(h.lp.num_col_, "kContinuous")).h
              ELSE h1} })
    : h1 \in {changeColsCost(h, 0, h.lp.num_col_ - 1,
                             Const(h.lp.num_col_, 0)).h} })

(***************************************************************************)
(* The solver called by Highs::run, seen from the interface: it leaves a    *)
(* model status, a basis with one basic variable per row, a solution that   *)
(* sits on the bounds the basis names, and the info record                  *)
(***************************************************************************)
SortedSeq(S) ==
  [k \in 1..Cardinality(S) |->
     CHOOSE i \in S : Cardinality({j \in S : j < i}) = k - 1]

ValueAt(status, lower, upper) ==
  IF status = "kLower" THEN lower
  ELSE IF status = "kUpper" THEN upper
  ELSE IF status = "kZero" THEN 0
  ELSE IF lower > -kHighsInf THEN lower
  ELSE IF upper < kHighsInf THEN upper
  ELSE 0

SumSeq(v) ==
  LET RECURSIVE Sum(_)
      Sum(k) == IF k = 0 THEN 0 ELSE v[k] + Sum(k - 1)
  IN Sum(Len(v))

solverOutcome(h, status, B, infeasibility) ==
  LET l == h.lp
      n == l.num_col_
      m == l.num_row_
      cst(i) == IF (i - 1) \in B THEN "kBasic"
                ELSE NewColStatus(l.col_lower_[i], l.col_upper_[i]).status
      rst(i) == IF (n + i - 1) \in B THEN "kBasic"
                ELSE NewColStatus(l.row_lower_[i], l.row_upper_[i]).status
      cmv(i) == IF (i - 1) \in B THEN 0
                ELSE NewColStatus(l.col_lower_[i], l.col_upper_[i]).move
      rmv(i) == IF (n + i - 1) \in B THEN 0
                ELSE -NewColStatus(l.row_lower_[i], l.row_upper_[i]).move
      col_value == [i \in 1..n |-> ValueAt(cst(i), l.col_lower_[i], l.col_upper_[i])]
      row_value == [i \in 1..m |-> ValueAt(rst(i), l.row_lower_[i], l.row_upper_[i])]
      col_dual == [i \in 1..n |-> IF (i - 1) \in B THEN 0 ELSE l.col_cost_[i]]
      has_solution == status = "kOptimal"
  IN [h EXCEPT
        !.model_status = status,
        !.basis = [valid |-> TRUE, useful |-> TRUE, alien |-> FALSE,
                   was_alien |-> FALSE,
                   col_status |-> [i \in 1..n |-> cst(i)],
                   row_status |-> [i \in 1..m |-> rst(i)]],
        !.solution = [value_valid |-> has_solution, dual_valid |-> has_solution,
                      col_value |-> col_value, row_value |-> row_value,
                      col_dual |-> col_dual, row_dual |-> Const(m, 0)],
        !.info = IF has_solution
                 THEN [valid |-> TRUE,
                       objective_function_value |->
                          SumSeq([i \in 1..n |->
                                    (l.col_cost_[i] * col_value[i]) \div One]),
                       primal_solution_status |-> "kSolutionStatusFeasible",
                       dual_solution_status |-> "kSolutionStatusFeasible",
                       num_primal_infeasibilities |-> 0,
                       max_primal_infeasibility |-> infeasibility,
                       sum_primal_infeasibilities |-> infeasibility,
                       num_dual_infeasibilities |-> 0,
                       max_dual_infeasibility |-> infeasibility,
                       sum_dual_infeasibilities |-> infeasibility]
                 ELSE [InvalidInfo EXCEPT !.valid = TRUE],
        !.ekk = [has_basis |-> TRUE, has_invert |-> TRUE,
                 initialised_for_solve |-> TRUE,
                 basicIndex_ |-> SortedSeq(B),
                 nonbasicFlag_ |-> [i \in 1..(n + m) |->
                                      IF (i - 1) \in B THEN kNonbasicFlagFalse
                                      ELSE kNonbasicFlagTrue],
                 nonbasicMove_ |-> [i \in 1..(n + m) |->
                                      IF i <= n THEN cmv(i) ELSE rmv(i - n)],
                 last_action |-> "none",
                 dual_ray_record_ |-> NoRayRecord,
                 primal_ray_record_ |-> NoRayRecord]]
(***************************************************************************)
(* Highs::lpKktCheck                                                        *)
(***************************************************************************)
primal_residual_tolerance == One \div 8
dual_residual_tolerance == One \div 8
optimality_tolerance == One \div 2
kDefaultKktTolerance == One \div 4
kHighsIllegalResidualCount == -1
max_allowed_tolerance_relative_violation == 100

Max(a, b) == IF a >= b THEN a ELSE b

\* measure / tolerance, as a fixed-point number
Ratio(measure, tolerance) == (measure * One) \div tolerance

\* The tolerances lpKktCheck works with: those of the options, or
\* kkt_tolerance for all of them when it is not the default
KktTolerances(o) ==
  IF o.kkt_tolerance # kDefaultKktTolerance
  THEN [primal_feasibility |-> o.kkt_tolerance,
        dual_feasibility |-> o.kkt_tolerance,
        primal_residual |-> o.kkt_tolerance,
        dual_residual |-> o.kkt_tolerance,
        optimality |-> o.kkt_tolerance]
  ELSE [primal_feasibility |-> primal_feasibility_tolerance,
        dual_feasibility |-> dual_feasibility_tolerance,
        primal_residual |-> primal_residual_tolerance,
        dual_residual |-> dual_residual_tolerance,
        optimality |-> optimality_tolerance]

\* HighsLp::objectiveValue
objectiveValue(l, col_value) ==
  SumSeq([i \in 1..l.num_col_ |-> (l.col_cost_[i] * col_value[i]) \div One])

\* getLpKktFailures writes its measures into the info record: kkt holds them
writeKktFailures(info1, kkt) ==
  [f \in (DOMAIN info1) \cup (DOMAIN kkt) |->
     IF f \in DOMAIN kkt THEN kkt[f] ELSE info1[f]]

\* lpKktCheck that also takes a violation of exactly the allowed margin as
\* compromising optimality
lpKktCheckStrict(h, kkt) ==
  IF ~h.solution.value_valid THEN h
  ELSE
  Only({ Only({ Only({ Only({ Only({ Only({ Only({
    [h EXCEPT
       !.info = [info1 EXCEPT !.primal_solution_status = primal_status,
                             !.dual_solution_status = dual_status],
       !.model_status =
          IF model_status1 = "kOptimal"
          THEN IF max_violation >= max_allowed_tolerance_relative_violation * One
               THEN "kUnknown" ELSE "kOptimal"
          ELSE IF /\ model_status1 = "kUnknown"
                  /\ max_violation < max_allowed_tolerance_relative_violation * One
               THEN "kOptimal" ELSE model_status1]
    : max_violation \in {Max(max_dual, Max(max_primal, objective_violation))} })
    : primal_status \in {
        IF h.basis.valid
        THEN IF max_primal > max_allowed_tolerance_relative_violation * One
             THEN "kSolutionStatusInfeasible"
             ELSE IF info1.num_primal_infeasibilities # 0
                  THEN info1.primal_solution_status
                  ELSE "kSolutionStatusFeasible"
        ELSE IF max_primal > max_allowed_tolerance_relative_violation * One
             THEN "kSolutionStatusInfeasible" ELSE "kSolutionStatusFeasible"},
      dual_status \in {
        IF h.basis.valid
        THEN IF max_dual > max_allowed_tolerance_relative_violation * One
             THEN "kSolutionStatusInfeasible"
             ELSE IF info1.num_dual_infeasibilities # 0
                  THEN info1.dual_solution_status
                  ELSE "kSolutionStatusFeasible"
        ELSE IF max_dual > max_allowed_tolerance_relative_violation * One
             THEN "kSolutionStatusInfeasible" ELSE "kSolutionStatusFeasible"} })
    : max_primal \in {
        IF h.basis.valid
        THEN IF have_residual_errors
             THEN Max(Ratio(info1.max_relative_primal_residual_error,
                            tol.primal_residual), primal_infeasibility)
             ELSE primal_infeasibility
        ELSE Max(Ratio(info1.max_relative_primal_residual_error,
                       tol.primal_residual),
                 Ratio(info1.max_relative_primal_infeasibility,
                       tol.primal_feasibility))},
      max_dual \in {
        IF h.basis.valid
        THEN IF have_residual_errors
             THEN Max(Ratio(info1.max_relative_dual_residual_error,
                            tol.dual_residual), dual_infeasibility)
             ELSE dual_infeasibility
        ELSE Max(Ratio(info1.max_relative_dual_residual_error,
                       tol.dual_residual),
                 Ratio(info1.max_relative_dual_infeasibility,
                       tol.dual_feasibility))},
      objective_violation \in {
        IF h.basis.valid \/ info1.primal_dual_objective_error > tol.optimality
        THEN Ratio(info1.primal_dual_objective_error, tol.optimality)
        ELSE 0} })
    : primal_infeasibility \in {
        IF info1.num_primal_infeasibilities > 0
        THEN Ratio(info1.max_primal_infeasibility, tol.primal_feasibility)
        ELSE 0},
      dual_infeasibility \in {
        IF info1.num_dual_infeasibilities > 0
        THEN Ratio(info1.max_dual_infeasibility, tol.dual_feasibility)
        ELSE 0},
      have_residual_errors \in {
        info1.num_primal_residual_errors # kHighsIllegalResidualCount} })
    : model_status1 \in {
        IF /\ h.model_status = "kUnboundedOrInfeasible"
           /\ info1.num_primal_infeasibilities = 0
           /\ (~get_residuals \/ info1.num_primal_residual_errors = 0)
        THEN "kUnbounded" ELSE h.model_status} })
    : info1 \in {writeKktFailures(
                  [h.info EXCEPT !.objective_function_value =
                     objectiveValue(h.lp, h.solution.col_value)], kkt)} })
    : tol \in {KktTolerances(h.options)}, get_residuals \in {~h.basis.valid} })

\* Lines 2583-2869.  kkt is what getLpKktFailures finds; the result is the
\* Highs object, the status returned being kOk always
lpKktCheck(h, kkt) ==
  IF ~h.solution.value_valid THEN h
  ELSE
  Only({ Only({ Only({ Only({ Only({ Only({ Only({
    [h EXCEPT
       !.info = [info1 EXCEPT !.primal_solution_status = primal_status,
                             !.dual_solution_status = dual_status],
       !.model_status =
          IF model_status1 = "kOptimal"
          THEN IF max_violation > max_allowed_tolerance_relative_violation * One
               THEN "kUnknown" ELSE "kOptimal"
          ELSE IF /\ model_status1 = "kUnknown"
                  /\ max_violation <= max_allowed_tolerance_relative_violation * One
               THEN "kOptimal" ELSE model_status1]
    : max_violation \in {Max(max_dual, Max(max_primal, objective_violation))} })
    : primal_status \in {
        IF h.basis.valid
        THEN IF max_primal > max_allowed_tolerance_relative_violation * One
             THEN "kSolutionStatusInfeasible"
             ELSE IF info1.num_primal_infeasibilities # 0
                  THEN info1.primal_solution_status
                  ELSE "kSolutionStatusFeasible"
        ELSE IF max_primal > max_allowed_tolerance_relative_violation * One
             THEN "kSolutionStatusInfeasible" ELSE "kSolutionStatusFeasible"},
      dual_status \in {
        IF h.basis.valid
        THEN IF max_dual > max_allowed_tolerance_relative_violation * One
             THEN "kSolutionStatusInfeasible"
             ELSE IF info1.num_dual_infeasibilities # 0
                  THEN info1.dual_solution_status
                  ELSE "kSolutionStatusFeasible"
        ELSE IF max_dual > max_allowed_tolerance_relative_violation * One
             THEN "kSolutionStatusInfeasible" ELSE "kSolutionStatusFeasible"} })
    : max_primal \in {
        IF h.basis.valid
        THEN IF have_residual_errors
             THEN Max(Ratio(info1.max_relative_primal_residual_error,
                            tol.primal_residual), primal_infeasibility)
             ELSE primal_infeasibility
        ELSE Max(Ratio(info1.max_relative_primal_residual_error,
                       tol.primal_residual),
                 Ratio(info1.max_relative_primal_infeasibility,
                       tol.primal_feasibility))},
      max_dual \in {
        IF h.basis.valid
        THEN IF have_residual_errors
             THEN Max(Ratio(info1.max_relative_dual_residual_error,
                            tol.dual_residual), dual_infeasibility)
             ELSE dual_infeasibility
        ELSE Max(Ratio(info1.max_relative_dual_residual_error,
                       tol.dual_residual),
                 Ratio(info1.max_relative_dual_infeasibility,
                       tol.dual_feasibility))},
      objective_violation \in {
        IF h.basis.valid \/ info1.primal_dual_objective_error > tol.optimality
        THEN Ratio(info1.primal_dual_objective_error, tol.optimality)
        ELSE 0} })
    : primal_infeasibility \in {
        IF info1.num_primal_infeasibilities > 0
        THEN Ratio(info1.max_primal_infeasibility, tol.primal_feasibility)
        ELSE 0},
      dual_infeasibility \in {
        IF info1.num_dual_infeasibilities > 0
        THEN Ratio(info1.max_dual_infeasibility, tol.dual_feasibility)
        ELSE 0},
      have_residual_errors \in {
        info1.num_primal_residual_errors # kHighsIllegalResidualCount} })
    : model_status1 \in {
        IF /\ h.model_status = "kUnboundedOrInfeasible"
           /\ info1.num_primal_infeasibilities = 0
           /\ (~get_residuals \/ info1.num_primal_residual_errors = 0)
        THEN "kUnbounded" ELSE h.model_status} })
    : info1 \in {writeKktFailures(
                  [h.info EXCEPT !.objective_function_value =
                     objectiveValue(h.lp, h.solution.col_value)], kkt)} })
    : tol \in {KktTolerances(h.options)}, get_residuals \in {~h.basis.valid} })

\* The sets of basic variables a solve may end with
BasicSets(h) ==
  {B \in SUBSET (0..(h.lp.num_col_ + h.lp.num_row_ - 1)) :
     Cardinality(B) = h.lp.num_row_}

(***************************************************************************)
(* Initial state: a Highs object with no model                              *)
(***************************************************************************)
NoCall == [op |-> "none", status |-> "kOk", arg |-> <<>>]
NoEf == [active |-> FALSE]
\* pre holds the LP as it was on entry to the operation in progress or just
\* finished, when that operation takes more than one step
NoPre == [num_col_ |-> 0, num_row_ |-> 0]
ScaleSet == (-MaxScale)..MaxScale

EmptyLp(sense, bound_scale, cost_scale) ==
  [num_col_ |-> 0, num_row_ |-> 0, col_cost_ |-> <<>>, col_lower_ |-> <<>>,
   col_upper_ |-> <<>>, integrality_ |-> <<>>, row_lower_ |-> <<>>,
   row_upper_ |-> <<>>, a_matrix_ |-> {}, sense_ |-> sense,
   has_infinite_cost_ |-> FALSE, user_bound_scale_ |-> bound_scale,
   user_cost_scale_ |-> cost_scale, mods_ |-> <<>>, scale_ |-> NoScale,
   offset_ |-> 0]

\* No file has been given to the reader
NoFile == [file |-> <<>>]

InitHighs(sense, bound_scale, cost_scale) ==
  /\ lp = EmptyLp(sense, bound_scale, cost_scale)
  /\ options = [user_bound_scale |-> bound_scale, user_cost_scale |-> cost_scale,
                kkt_tolerance |-> kDefaultKktTolerance,
                blend_multi_objectives |-> TRUE,
                presolve |-> "choose", solve_relaxation |-> FALSE,
                allow_unbounded_or_infeasible |-> FALSE]
  /\ basis = [valid |-> FALSE, useful |-> FALSE, alien |-> TRUE,
              was_alien |-> TRUE, col_status |-> <<>>, row_status |-> <<>>]
  /\ model_status = "kNotset"
  /\ solution = NoSolution
  /\ info = InvalidInfo
  /\ ekk = [has_basis |-> FALSE, has_invert |-> FALSE,
            initialised_for_solve |-> FALSE, basicIndex_ |-> <<>>,
            nonbasicFlag_ |-> <<>>, nonbasicMove_ |-> <<>>,
            last_action |-> "none", dual_ray_record_ |-> NoRayRecord,
            primal_ray_record_ |-> NoRayRecord]
  /\ call = NoCall
  /\ trace = <<>>
  /\ multi_linear_objective_ = <<>>
  /\ hessian_ = [dim_ |-> 0]
  /\ pre = NoPre
  /\ pc = "idle"
  /\ ef = NoEf

InitWith(sense, bound_scale, cost_scale) ==
  /\ InitHighs(sense, bound_scale, cost_scale)
  /\ mps = NoFile

Init == \E bs \in {0, MaxScale} : InitWith("kMinimize", bs, 0)

\* The new value of every field of the Highs object
Commit(h) ==
  /\ lp' = h.lp
  /\ options' = h.options
  /\ basis' = h.basis
  /\ model_status' = h.model_status
  /\ solution' = h.solution
  /\ info' = h.info
  /\ ekk' = h.ekk
  /\ trace' = h.trace
  /\ multi_linear_objective_' = h.multi_linear_objective_
  /\ hessian_' = h.hessian_
  /\ mps' = mps

Called(op, status, arg) ==
  call' = [op |-> op, status |-> status, arg |-> arg]

(***************************************************************************)
(* Inputs                                                                   *)
(***************************************************************************)
Vectors(n, S) == [1..n -> S]
Intervals(dim) == {Interval(dim, f, t) : f \in 0..(dim - 1), t \in 0..(dim - 1)}
Sets(dim) == {SetOf(dim, SortedSeq(S)) : S \in (SUBSET (0..(dim - 1))) \ {{}}}
Masks(dim) == {MaskOf(dim, mk) : mk \in [1..dim -> {0, 1}]}
Collections(dim) == Intervals(dim) \cup Sets(dim) \cup Masks(dim)
\* What the flags of deleteBasisCols and deleteBasisRows may hold when
\* deleteBasisEntries returns without setting them
Uninit(ic) ==
  IF limits(ic).from_k > limits(ic).to_k
  THEN {[basic |-> b, nonbasic |-> b] : b \in BOOLEAN}
  ELSE {[basic |-> FALSE, nonbasic |-> FALSE]}

Free == <<-kHighsInf, kHighsInf>>
NonNegative == <<0, kHighsInf>>

(***************************************************************************)
(* The calls of the interface as steps.  Each takes the inputs the user     *)
(* passes; a step is taken between calls only (pc = "idle")                 *)
(***************************************************************************)
Idle == pc = "idle"

AddColsCall(n, cost, lower, upper, nz, a, col_data_null, matrix_data_null) ==
  /\ Idle
  /\ \E r \in {addColsInterface(Highs, n, cost, lower, upper, nz, a,
                               col_data_null, matrix_data_null)} :
       Commit(r.h) /\ Called("addCols", r.status, <<>>)
  /\ pre' = NoPre
  /\ UNCHANGED <<pc, ef>>

AddRowsCall(n, lower, upper, nz, ar, row_data_null, matrix_data_null) ==
  /\ Idle
  /\ \E r \in {addRowsInterface(Highs, n, lower, upper, nz, ar,
                               row_data_null, matrix_data_null)} :
       Commit(r.h) /\ Called("addRows", r.status, <<>>)
  /\ pre' = NoPre
  /\ UNCHANGED <<pc, ef>>

DeleteColsCall(ic, uninit) ==
  /\ Idle
  /\ \E r \in {deleteColsInterface(Highs, ic, uninit)} :
       Commit(r.h) /\ Called("deleteCols", r.status,
                               InCollection(ic) \cap (0..(lp.num_col_ - 1)))
  /\ pre' = NoPre
  /\ UNCHANGED <<pc, ef>>

DeleteRowsCall(ic, uninit) ==
  /\ Idle
  /\ \E r \in {deleteRowsInterface(Highs, ic, uninit)} :
       Commit(r.h) /\ Called("deleteRows", r.status,
                               InCollection(ic) \cap (0..(lp.num_row_ - 1)))
  /\ pre' = NoPre
  /\ UNCHANGED <<pc, ef>>

ChangeCostsCall(ic, cost, cost_null) ==
  /\ Idle
  /\ \E r \in {changeCostsInterface(Highs, ic, cost, cost_null)} :
       Commit(r.h) /\ Called("changeCosts", r.status, <<>>)
  /\ pre' = NoPre
  /\ UNCHANGED <<pc, ef>>

\* TRUE when the solution held before the call lies within the bounds l
StillFeasible(l) ==
  /\ solution.value_valid
  /\ \A i \in 1..l.num_col_ :
       /\ l.col_lower_[i] <= solution.col_value[i]
       /\ solution.col_value[i] <= l.col_upper_[i]

ChangeColBoundsCall(ic, lower, upper, data_null) ==
  /\ Idle
  /\ \E r \in {changeColBoundsInterface(Highs, ic, lower, upper, data_null)} :
       Commit(r.h) /\ Called("changeColBounds", r.status,
                               [optimal |-> model_status = "kOptimal",
                                feasible |-> StillFeasible(r.h.lp)])
  /\ pre' = NoPre
  /\ UNCHANGED <<pc, ef>>

ChangeIntegralityCall(ic, integrality, data_null) ==
  /\ Idle
  /\ \E r \in {changeIntegralityInterface(Highs, ic, integrality, data_null)} :
       Commit(r.h) /\ Called("changeIntegrality", r.status, <<>>)
  /\ pre' = NoPre
  /\ UNCHANGED <<pc, ef>>

ChangeCoefficientCall(row, col, value, oob_basic) ==
  /\ Idle
  /\ \E r \in {changeCoefficientInterface(Highs, row, col, value, oob_basic)} :
       Commit(r.h) /\ Called("changeCoefficient", r.status,
                               [row |-> row, col |-> col,
                                basic |-> basis.col_status[col + 1] = "kBasic"])
  /\ pre' = NoPre
  /\ UNCHANGED <<pc, ef>>

\* Highs::run as one call: the infinite costs are taken out, the solver
\* runs, and the infinite costs are put back
run(h, status, B, infeasibility) ==
  Only({
    IF handled.status = "kError"
    THEN Ret([h EXCEPT !.model_status = "kUnknown"], "kError")
    ELSE
      Only({ Only({
        Ret(unapplyMods(restored.h), restored.status)
        : restored \in {restoreInfCost(solved, "kOk")} })
        : solved \in {solverOutcome(handled.h, status, B, infeasibility)} })
    : handled \in {handleInfCost(h)} })

RunCall(status, B, infeasibility) ==
  /\ Idle
  /\ \E r \in {run(Highs, status, B, infeasibility)} :
       Commit(r.h) /\ Called("run", r.status, <<>>)
  /\ pre' = NoPre
  /\ UNCHANGED <<pc, ef>>

\* One nonzero, of the given value, in the first new column or row
OneEntry(n, index, value) ==
  [i \in 1..n |-> IF i = 1 THEN <<<<index, value>>>> ELSE <<>>]

\* addCols of columns that share cost and bounds, with nz nonzeros
AddColsOf(Costs, Bounds, Nzs) ==
  \E n \in 1..(MaxCol - lp.num_col_) :
    \E c \in Costs, b \in Bounds, nz \in Nzs :
      /\ nz = 1 => lp.num_row_ > 0
      /\ AddColsCall(n, Const(n, c), Const(n, b[1]), Const(n, b[2]), nz,
                     IF nz = 1 THEN OneEntry(n, 0, One) ELSE Const(n, <<>>),
                     FALSE, FALSE)

\* addRows of rows that share bounds, with nz nonzeros
AddRowsOf(Bounds, Nzs) ==
  \E n \in 1..(MaxRow - lp.num_row_) :
    \E b \in Bounds, nz \in Nzs :
      /\ nz = 1 => lp.num_col_ > 0
      /\ AddRowsCall(n, Const(n, b[1]), Const(n, b[2]), nz,
                     IF nz = 1 THEN OneEntry(n, 0, One) ELSE Const(n, <<>>),
                     FALSE, FALSE)

\* HighsSparseMatrix::productQuad: the row activities of x
matrixProduct(a, num_row, x) ==
  LET RECURSIVE Sum(_)
      Sum(E) == IF E = {} THEN 0
                ELSE LET e == CHOOSE e \in E : TRUE
                     IN (e[3] * x[e[2] + 1]) \div One + Sum(E \ {e})
  IN [iRow \in 1..num_row |-> Sum({e \in a : e[1] = iRow - 1})]

\* Highs::changeColBounds of one column
changeColBounds(h, col, lower, upper) ==
  IF col < 0 \/ col >= h.lp.num_col_ THEN Ret(h, "kError")
  ELSE changeColBoundsInterface(h, SetOf(h.lp.num_col_, <<col>>),
                                <<lower>>, <<upper>>, FALSE)

\* Highs::elasticityFilterReturn.  e holds the copies taken on entry and
\* the solution vectors of the last solve, which the Highs object still
\* holds when the added rows and columns are deleted
elasticityFilterReturn(h, e, return_status, feasible_model) ==
  Only({ Only({ Only({ Only({ Only({ Only({
    Ret(IF feasible_model THEN [h7 EXCEPT !.model_status = "kNotset"]
        ELSE h7, return_status)
    : h7 \in {IF return_status = "kOk"
              THEN [h6 EXCEPT
                      !.solution =
                         [e.solution EXCEPT
                            !.row_value = matrixProduct(h6.lp.a_matrix_,
                                                        h6.lp.num_row_,
                                                        e.solution.col_value),
                            !.value_valid = TRUE],
                      !.info.objective_function_value =
                         h.info.objective_function_value,
                      !.info.valid = TRUE]
              ELSE h6} })
    : h6 \in {IF Len(e.original_integrality) # 0
              THEN changeColsIntegrality(h5, 0, e.original_num_col - 1,
                                         e.original_integrality).h
              ELSE h5} })
    : h5 \in {changeColsBounds(h4, 0, e.original_num_col - 1,
                               e.original_col_lower, e.original_col_upper).h} })
    : h4 \in {changeColsCost([h2 EXCEPT !.basis.valid = FALSE], 0,
                             e.original_num_col - 1, e.original_col_cost).h} })
    : h2 \in {deleteCols(h1, e.original_num_col, h1.lp.num_col_ - 1).h} })
    : h1 \in {deleteRows(h, e.original_num_row, h.lp.num_row_ - 1).h} })

\* The columns of the e-LP that the loops of lines 2385-2420 and 2441-2469
\* read, in the order they read them
EcolIndices(e) ==
  [k \in 1..Len(e.col_of_ecol) |-> e.col_ecol_offset + k - 1]
  \o [k \in 1..Len(e.row_of_ecol) |-> e.row_ecol_offset + k - 1]

RECURSIVE fixPositive(_, _, _, _, _)
\* Lines 2385-2420: each e-variable whose value exceeds the tolerance is
\* fixed at zero; the status of changeColBounds is not looked at.  A read
\* beyond the end of col_value is positive for the columns in beyond
fixPositive(h, col_value, indices, beyond, k) ==
  IF k > Len(indices) THEN [h |-> h, num_fixed |-> 0]
  ELSE IF (IF indices[k] < Len(col_value)
           THEN col_value[indices[k] + 1] > primal_feasibility_tolerance
           ELSE indices[k] \in beyond)
  THEN Only({ Only({
         [h |-> r.h, num_fixed |-> r.num_fixed + 1]
         : r \in {fixPositive(h1, col_value, indices, beyond, k + 1)} })
         : h1 \in {changeColBounds(h, indices[k], 0, 0).h} })
  ELSE fixPositive(h, col_value, indices, beyond, k + 1)

\* Lines 2438-2469: the rows whose e-variable has upper bound zero.
\* enforced_beyond holds the e-columns that are read beyond the end of
\* col_upper_ and happen to be read as zero
infeasibleRowSubset(l, e, enforced_beyond) ==
  LET enforced(k) ==
        LET iCol == e.row_ecol_offset + k - 1
        IN IF iCol < Len(l.col_upper_) THEN l.col_upper_[iCol + 1] = 0
           ELSE iCol \in enforced_beyond
      RECURSIVE Subset(_)
      Subset(k) == IF k = 0 THEN <<>>
                   ELSE IF enforced(k)
                   THEN Append(Subset(k - 1), e.row_of_ecol[k])
                   ELSE Subset(k - 1)
  IN Subset(Len(e.row_of_ecol))

\* One solve of the e-LP by Highs::run.  The values of the e-variables in
\* positive exceed the primal feasibility tolerance; the other values are
\* those of the basic solution
solveLp(h, status, positive) ==
  Only({
    [r EXCEPT !.h.solution.col_value =
       [i \in 1..Len(@) |-> IF (i - 1) \in positive THEN One ELSE @[i]]]
    : r \in {run(h, status,
                 {h.lp.num_col_ + i - 1 : i \in 1..h.lp.num_row_}, 0)} })

(***************************************************************************)
(* Specification SpecAdd: addCols and addRows, accepted and refused         *)
(***************************************************************************)
InitAdd == \E bs \in {0, MaxScale} : InitWith("kMinimize", bs, 0)

AddCols == AddColsOf({0}, {Free, NonNegative}, {0, 1})

AddRows == AddRowsOf({<<-kHighsInf, One>>}, {0, 1})

AddColsRefusals ==
  {"num_col", "num_nz", "null", "matrix_null", "no_rows", "bound",
   "scale", "value", "index"}

\* Calls of addCols that the interface refuses
AddColsRefused ==
  \E kind \in AddColsRefusals :
    LET n == IF kind = "num_col" THEN -1 ELSE 1
        nz == IF kind = "num_nz" THEN -1
              ELSE IF kind \in {"matrix_null", "no_rows", "value", "index"}
              THEN 1 ELSE 0
        lower == IF kind = "bound" THEN kHighsInf ELSE 0
        upper == IF kind = "scale" THEN 2 * One ELSE kHighsInf
        a == IF kind = "value" THEN OneEntry(1, 0, large_matrix_value)
             ELSE IF kind = "index" THEN OneEntry(1, lp.num_row_, One)
             ELSE OneEntry(1, 0, One)
    IN /\ lp.num_col_ < MaxCol
       /\ kind = "no_rows" => lp.num_row_ = 0
       /\ kind \in {"value", "index"} => lp.num_row_ > 0
       /\ kind = "scale" => lp.user_bound_scale_ > 0
       /\ AddColsCall(n, <<0>>, <<lower>>, <<upper>>, nz, a, kind = "null",
                      kind = "matrix_null")

AddRowsRefusals ==
  {"num_row", "num_nz", "null", "matrix_null", "no_cols", "bound",
   "scale", "value", "index"}

\* Calls of addRows that the interface refuses
AddRowsRefused ==
  \E kind \in AddRowsRefusals :
    LET n == IF kind = "num_row" THEN -1 ELSE 1
        nz == IF kind = "num_nz" THEN -1
              ELSE IF kind \in {"matrix_null", "no_cols", "value", "index"}
              THEN 1 ELSE 0
        lower == IF kind = "bound" THEN kHighsInf ELSE -kHighsInf
        upper == IF kind = "scale" THEN 2 * One ELSE kHighsInf
        ar == IF kind = "value" THEN OneEntry(1, 0, large_matrix_value)
              ELSE IF kind = "index" THEN OneEntry(1, lp.num_col_, One)
              ELSE OneEntry(1, 0, One)
    IN /\ lp.num_row_ < MaxRow
       /\ kind = "no_cols" => lp.num_col_ = 0
       /\ kind \in {"value", "index"} => lp.num_col_ > 0
       /\ kind = "scale" => lp.user_bound_scale_ > 0
       /\ AddRowsCall(n, <<lower>>, <<upper>>, nz, ar, kind = "null",
                      kind = "matrix_null")

Run == \E B \in BasicSets(Highs) : RunCall("kOptimal", B, 0)

NextAdd ==
  \/ AddCols
  \/ AddRows
  \/ AddColsRefused
  \/ AddRowsRefused
  \/ Run

SpecAdd == InitAdd /\ [][NextAdd]_vars

\* The part of the model that claim C1 names
C1Frame == <<lp.col_cost_, lp.col_lower_, lp.col_upper_, lp.row_lower_,
             lp.row_upper_, lp.a_matrix_, lp.num_col_, lp.num_row_, basis,
             model_status>>

\* C1: a call of addColsInterface or addRowsInterface that returns kError
\* leaves the cost and bound vectors, the matrix, num_col_ and num_row_, the
\* basis and the model status as they were before the call
C1_ErrorLeavesModel ==
  [][(call'.op \in {"addCols", "addRows"} /\ call'.status = "kError")
       => C1Frame' = C1Frame]_vars

(***************************************************************************)
(* Specification SpecDelete: adding and deleting columns and rows around   *)
(* solves                                                                   *)
(***************************************************************************)
InitDelete == InitWith("kMinimize", 0, 0)

AddPlainCols == AddColsOf({0}, {Free, NonNegative}, {0})

AddPlainRows == AddRowsOf({<<-kHighsInf, One>>}, {0})

DeleteCols ==
  \E ic \in Collections(lp.num_col_) :
    \E u \in Uninit(ic) : DeleteColsCall(ic, u)

DeleteRows ==
  \E ic \in Collections(lp.num_row_) :
    \E u \in Uninit(ic) : DeleteRowsCall(ic, u)

RunPlain == \E B \in BasicSets(Highs) : RunCall("kOptimal", B, 0)

NextDelete ==
  \/ AddPlainCols
  \/ AddPlainRows
  \/ DeleteCols
  \/ DeleteRows
  \/ RunPlain

SpecDelete == InitDelete /\ [][NextDelete]_vars

NumBasic(status) == Cardinality({i \in 1..Len(status) : status[i] = "kBasic"})

\* C4: from a valid basis with num_row Basic entries, after successful
\* addCols, addRows, deleteCols and deleteRows calls, a basis that is still
\* valid has status vectors of lengths num_col and num_row that hold exactly
\* num_row Basic entries between them
C4_ValidBasisShape ==
  basis.valid =>
    /\ Len(basis.col_status) = lp.num_col_
    /\ Len(basis.row_status) = lp.num_row_
    /\ NumBasic(basis.col_status) + NumBasic(basis.row_status) = lp.num_row_

\* A basis that is valid after a deletion, with a Basic column among the kept
C4_Witness ==
  /\ call.op \in {"deleteCols", "deleteRows"}
  /\ call.arg # {}
  /\ basis.valid
  /\ lp.num_row_ >= 1
  /\ NumBasic(basis.col_status) >= 1

(***************************************************************************)
(* Specification SpecChange: changes of a coefficient and of column bounds  *)
(* on a solved model                                                        *)
(***************************************************************************)
InitChange == InitWith("kMinimize", 0, 0)

AddNonNegativeCols == AddColsOf({0}, {NonNegative}, {0})

AddRowsForChange == AddRowsOf({<<-kHighsInf, One>>}, {0})

RunForChange == \E B \in BasicSets(Highs) : RunCall("kOptimal", B, 0)

ChangeCoefficient ==
  \E col \in 0..(lp.num_col_ - 1), value \in {0, One} :
    /\ lp.num_row_ > 0
    /\ Len(basis.col_status) = lp.num_col_
    /\ ChangeCoefficientCall(0, col, value, FALSE)

ChangeColBounds ==
  \E b \in {<<0, One>>, <<One, kHighsInf>>} :
    /\ lp.num_col_ > 0
    /\ ChangeColBoundsCall(Interval(lp.num_col_, 0, 0), <<b[1]>>, <<b[2]>>,
                           FALSE)

NextChange ==
  \/ AddNonNegativeCols
  \/ AddRowsForChange
  \/ RunForChange
  \/ ChangeCoefficient
  \/ ChangeColBounds

SpecChange == InitChange /\ [][NextChange]_vars

\* C9 as stated: changeCoefficientInterface on a column that is not Basic
\* does not mark the basis alien and keeps the model status, the primal
\* solution and the factorisation of the engine
C9_NonbasicKeepsAll ==
  [][(call'.op = "changeCoefficient" /\ ~call'.arg.basic)
       => /\ basis'.alien = basis.alien
          /\ model_status' = model_status
          /\ solution'.value_valid = solution.value_valid
          /\ solution'.col_value = solution.col_value
          /\ ekk'.has_invert = ekk.has_invert]_vars

\* C9 amended: changeCoefficientInterface on a column that is not Basic
\* leaves the basis as it is, not marked alien, but resets the model status
\* to kNotset, invalidates solution and info, and notifies the engine with
\* kNewRows, which drops its basis and factorisation
C9_NonbasicKeepsBasisOnly ==
  [][(call'.op = "changeCoefficient" /\ ~call'.arg.basic)
       => /\ basis' = basis
          /\ model_status' = "kNotset"
          /\ ~solution'.value_valid
          /\ ~solution'.dual_valid
          /\ info' = InvalidInfo
          /\ ekk'.last_action = "kNewRows"
          /\ ~ekk'.has_invert
          /\ ~ekk'.has_basis]_vars

\* A coefficient of a nonbasic column of a solved model has been changed
C9_Witness ==
  /\ call.op = "changeCoefficient"
  /\ ~call.arg.basic
  /\ basis.valid
  /\ ~basis.alien
  /\ model_status = "kNotset"
  /\ ekk.last_action = "kNewRows"

\* C10 as stated: changeColBoundsInterface on an Optimal model, with new
\* bounds that every current primal value satisfies, leaves the model status
\* Optimal
C10_FeasibleKeepsOptimal ==
  [][(/\ call'.op = "changeColBounds"
      /\ call'.status = "kOk"
      /\ call'.arg.optimal
      /\ call'.arg.feasible)
       => model_status' = "kOptimal"]_vars

\* C10 amended: a successful changeColBoundsInterface on a non-empty
\* collection resets the model status to kNotset and invalidates solution
\* and info, whether or not the current primal values satisfy the new
\* bounds; the validity of the basis is kept and the engine keeps its
\* factorisation
C10_ChangeResetsStatus ==
  [][(call'.op = "changeColBounds" /\ call'.status = "kOk")
       => /\ model_status' = "kNotset"
          /\ ~solution'.value_valid
          /\ info' = InvalidInfo
          /\ basis'.valid = basis.valid
          /\ ekk'.has_invert = ekk.has_invert
          /\ ekk'.last_action = "kNewBounds"]_vars

\* The bounds of a column of an Optimal model have been changed to bounds
\* that the primal values satisfied
C10_Witness ==
  /\ call.op = "changeColBounds"
  /\ call.status = "kOk"
  /\ call.arg.optimal
  /\ call.arg.feasible
  /\ model_status = "kNotset"
  /\ basis.valid

(***************************************************************************)
(* Specification SpecInfCost: infinite costs through addCols, changeCosts,  *)
(* deleteCols and the handleInfCost / restoreInfCost pair of a run          *)
(***************************************************************************)
InitInfCost == \E sense \in {"kMinimize", "kMaximize"} : InitWith(sense, 0, 0)

Fractional == <<Half, 2 * One + Half>>

AddCostedCols ==
  AddColsOf({-kHighsInf, 0, kHighsInf}, {NonNegative, Fractional}, {0})

ChangeCosts ==
  \E col \in 0..(lp.num_col_ - 1), cost \in {0, kHighsInf} :
    ChangeCostsCall(Interval(lp.num_col_, col, col), <<cost>>, FALSE)

ChangeIntegrality ==
  \E col \in 0..(lp.num_col_ - 1) :
    ChangeIntegralityCall(Interval(lp.num_col_, col, col), <<"kInteger">>,
                          FALSE)

DeleteOneCol ==
  \E col \in 0..(lp.num_col_ - 1) :
    DeleteColsCall(Interval(lp.num_col_, col, col),
                   [basic |-> FALSE, nonbasic |-> FALSE])

\* The start of a run: the infinite costs are taken out of the model
HandleInfCost ==
  /\ Idle
  /\ \E r \in {handleInfCost(Highs)} :
       /\ Commit(IF r.status = "kError"
                 THEN [r.h EXCEPT !.model_status = "kUnknown"] ELSE r.h)
       /\ Called("handleInfCost", r.status, <<>>)
       /\ pc' = IF r.status = "kError" THEN "idle" ELSE "run"
  /\ pre' = lp
  /\ UNCHANGED ef

RestoredStatuses ==
  {"kOptimal", "kInfeasible"}

\* The rest of the run: the solver finishes and the infinite costs are put
\* back
RestoreInfCost ==
  /\ pc = "run"
  /\ \E status \in RestoredStatuses, B \in BasicSets(Highs) :
       \E solved \in {solverOutcome(Highs, status, B, 0)} :
         \E r \in {restoreInfCost(solved, "kOk")} :
           \E h \in {unapplyMods(r.h)} :
             /\ Commit(h)
             /\ Called("restoreInfCost", r.status, <<>>)
  /\ pc' = "idle"
  /\ UNCHANGED <<pre, ef>>

NextInfCost ==
  \/ AddCostedCols
  \/ ChangeCosts
  \/ ChangeIntegrality
  \/ DeleteOneCol
  \/ HandleInfCost
  \/ RestoreInfCost

SpecInfCost == InitInfCost /\ [][NextInfCost]_vars

\* C5: after any sequence of addCols, changeCosts, deleteCols, handleInfCost
\* and restoreInfCost calls, lp.has_infinite_cost_ is true if and only if
\* some cost stored in the LP has magnitude at least infinite_cost
C5_FlagIffInfiniteCost ==
  lp.has_infinite_cost_ =
    (\E i \in 1..lp.num_col_ : Abs(lp.col_cost_[i]) >= infinite_cost)

\* C8: after restoreInfCost every column that had an infinite cost has the
\* cost, lower bound and upper bound it had just before handleInfCost
C8_RestoreIsExact ==
  call.op = "restoreInfCost" =>
    \A i \in 1..pre.num_col_ :
      IsInfCost(pre, i - 1) =>
        /\ lp.col_cost_[i] = pre.col_cost_[i]
        /\ lp.col_lower_[i] = pre.col_lower_[i]
        /\ lp.col_upper_[i] = pre.col_upper_[i]

(***************************************************************************)
(* Specification SpecScale: changes of the user bound and cost scale        *)
(* options on models that may hold a solution                               *)
(***************************************************************************)
InitScale == InitWith("kMinimize", 0, 0)

\* Highs::passOptions: the options are overwritten and optionChangeAction
\* acts on them
PassOptionsCall(user_bound_scale, user_cost_scale) ==
  /\ Idle
  /\ \E h \in {[Highs EXCEPT !.options.user_bound_scale = user_bound_scale,
                             !.options.user_cost_scale = user_cost_scale]} :
       \E r \in {optionChangeAction(h)} :
         Commit(r.h) /\ Called("optionChange", r.status,
                                 [user_bound_scale |-> user_bound_scale,
                                  user_cost_scale |-> user_cost_scale])
  /\ pre' = NoPre
  /\ UNCHANGED <<pc, ef>>

AddScaledCols == AddColsOf({2 * One}, {<<0, One>>, <<0, 2 * One>>}, {0})

RunForScale ==
  \E B \in BasicSets(Highs), infeasibility \in {0, primal_feasibility_tolerance} :
    RunCall("kOptimal", B, infeasibility)

PassOptions == \E bs \in ScaleSet, cs \in ScaleSet : PassOptionsCall(bs, cs)

NextScale ==
  \/ AddScaledCols
  \/ RunForScale
  \/ PassOptions

SpecScale == InitScale /\ [][NextScale]_vars

\* C6: when optionChangeAction returns kError neither scale change has taken
\* effect: LP bounds, costs and scale exponents, the primal and dual values
\* of the solution and the info record are as before the call
C6_ErrorChangesNothing ==
  [][(call'.op = "optionChange" /\ call'.status = "kError")
       => /\ lp' = lp
          /\ solution' = solution
          /\ info' = info]_vars

\* TRUE when some finite value of the vectors, scaled by 2^dl, reaches the
\* threshold
Reaches(vectors, dl, threshold) ==
  \E v \in vectors : \E i \in 1..Len(v) :
    /\ Abs(v[i]) < kHighsInf
    /\ Abs(ScaleBy(v[i], dl)) >= threshold

BoundRequestReaches(l, user_bound_scale) ==
  Reaches({l.col_lower_, l.col_upper_, l.row_lower_, l.row_upper_},
          user_bound_scale - l.user_bound_scale_, infinite_bound)

CostRequestReaches(l, user_cost_scale) ==
  Reaches({l.col_cost_}, user_cost_scale - l.user_cost_scale_, infinite_cost)

\* C7: a request for a user bound scale (user cost scale) under which a
\* scaled bound (cost) would reach the infinite bound (cost) threshold makes
\* optionChangeAction return kError, sets the option back to the exponent
\* the LP holds, and leaves every bound (cost) of the LP unchanged
C7_RefusedScaleRolledBack ==
  [][call'.op = "optionChange" =>
       /\ BoundRequestReaches(lp, call'.arg.user_bound_scale)
            => /\ call'.status = "kError"
               /\ options'.user_bound_scale = lp.user_bound_scale_
               /\ lp'.user_bound_scale_ = lp.user_bound_scale_
               /\ lp'.col_lower_ = lp.col_lower_
               /\ lp'.col_upper_ = lp.col_upper_
               /\ lp'.row_lower_ = lp.row_lower_
               /\ lp'.row_upper_ = lp.row_upper_
       /\ CostRequestReaches(lp, call'.arg.user_cost_scale)
            => /\ call'.status = "kError"
               /\ options'.user_cost_scale = lp.user_cost_scale_
               /\ lp'.user_cost_scale_ = lp.user_cost_scale_
               /\ lp'.col_cost_ = lp.col_cost_]_vars

\* A bound scale has been refused on a model with a column: the option asked
\* for differs from the exponent the LP holds, and the option is back at it
C7_Witness ==
  /\ call.op = "optionChange"
  /\ call.status = "kError"
  /\ lp.num_col_ >= 1
  /\ call.arg.user_bound_scale # lp.user_bound_scale_
  /\ options.user_bound_scale = lp.user_bound_scale_

(***************************************************************************)
(* Specification SpecFilter: the elasticity filter on small models, with    *)
(* and without user scaling                                                 *)
(***************************************************************************)
InitFilter ==
  \E bs \in {0, MaxScale}, cs \in {0, MaxScale} : InitWith("kMinimize", bs, cs)

\* The model is built by one addCols and one addRows
AddBoundedCols ==
  /\ lp.num_col_ = 0
  /\ AddColsOf({Half}, {<<Half, kHighsInf>>}, {0})

AddRowsForFilter ==
  /\ lp.num_row_ = 0
  /\ AddRowsOf({<<Half, kHighsInf>>}, {1})

MakeInteger ==
  /\ lp.num_col_ > 0
  /\ ChangeIntegralityCall(Interval(lp.num_col_, 0, 0), <<"kInteger">>, FALSE)

\* The penalties of getIisInterface, and those of a feasibility relaxation
\* with every bound elastic
Penalties ==
  {[global_lower_penalty |-> p[1], global_upper_penalty |-> p[1],
    global_rhs_penalty |-> p[2], local_lower_penalty |-> NoPenalties,
    local_upper_penalty |-> NoPenalties, local_rhs_penalty |-> NoPenalties] :
     p \in {<<-1, One>>, <<One, One>>}}

\* elasticityFilter up to its first solve, lines 2052-2344
ElasticityFilterBegin ==
  /\ Idle
  /\ \E P \in Penalties, get_infeasible_row \in BOOLEAN :
       \E b \in {elasticityFilterBuild(Highs, P, get_infeasible_row)} :
         Commit(b.h) /\ ef' = b.ef
  /\ Called("elasticityFilterBegin", "kOk", <<>>)
  /\ pre' = lp
  /\ pc' = "ef_solve"

\* The e-variables the solver may leave positive: those not fixed at zero
Unfixed(l, e) ==
  {EcolIndices(e)[k] : k \in 1..Len(EcolIndices(e))}
  \cap {iCol \in 0..(l.num_col_ - 1) : l.col_upper_[iCol + 1] > 0}

\* The e-variables that the filter reads beyond the end of the LP's vectors
Beyond(l, e) ==
  {EcolIndices(e)[k] : k \in 1..Len(EcolIndices(e))}
  \ (0..(l.num_col_ - 1))

AtMostOne(S) == {{}} \cup {{x} : x \in S}

ElasticityFilterEnd(r, path, feasible_model, subset) ==
  /\ Commit(r.h)
  /\ Called("elasticityFilter", r.status,
            [path |-> path, feasible_model |-> feasible_model,
             infeasible_row_subset |-> subset])
  /\ ef' = NoEf
  /\ pc' = "idle"
  /\ UNCHANGED pre

RunStatuses ==
  {"kOk", "kError"}

ElasticStatuses ==
  {"kOptimal", "kInfeasible"}

\* A solve of the e-LP and what follows it up to the next solve or the
\* return, lines 2360-2489
ElasticityFilterSolve ==
  /\ pc = "ef_solve"
  /\ \E run_status \in RunStatuses,
        status \in ElasticStatuses,
        positive \in AtMostOne(Unfixed(lp, ef)),
        beyond \in AtMostOne(Beyond(lp, ef)),
        enforced_beyond \in AtMostOne(Beyond(lp, ef)) :
       \E solved \in {solveLp(Highs, status, positive).h} :
       \E e \in {[ef EXCEPT !.solved = TRUE, !.solution = solved.solution]} :
          IF run_status # "kOk"
          THEN /\ positive = {} /\ beyond = {} /\ enforced_beyond = {}
               /\ status = "kOptimal"
               /\ \E failed \in {[Highs EXCEPT !.model_status = "kSolveError",
                                               !.solution = NoSolution,
                                               !.info = InvalidInfo]} :
                  \E r \in {elasticityFilterReturn(failed, ef, run_status,
                                                   FALSE)} :
                    ElasticityFilterEnd(r, "solve error", FALSE, <<>>)
          ELSE IF ~ef.solved /\ ~ef.get_infeasible_row
          THEN /\ beyond = {} /\ enforced_beyond = {}
               /\ \E r \in {elasticityFilterReturn(solved, e, "kOk", FALSE)} :
                    ElasticityFilterEnd(r, "relaxation", FALSE, <<>>)
          ELSE IF ef.solved /\ status = "kInfeasible"
          THEN /\ positive = {} /\ beyond = {}
               /\ \E r \in {elasticityFilterReturn(solved, e, "kOk", FALSE)},
                     subset \in {infeasibleRowSubset(solved.lp, ef,
                                                     enforced_beyond)} :
                    ElasticityFilterEnd(r, "infeasible", FALSE, subset)
          ELSE
            \E fixed \in {fixPositive(solved, solved.solution.col_value,
                                      EcolIndices(ef), beyond, 1)} :
              IF fixed.num_fixed = 0
              THEN \E r \in {elasticityFilterReturn(fixed.h, e, "kOk", TRUE)},
                      subset \in {infeasibleRowSubset(fixed.h.lp, ef,
                                                      enforced_beyond)} :
                     ElasticityFilterEnd(r, "feasible", TRUE, subset)
              ELSE /\ enforced_beyond = {}
                   /\ Commit(fixed.h)
                   /\ ef' = e
                   /\ Called("elasticityFilterPass", "kOk", <<>>)
                   /\ UNCHANGED <<pre, pc>>

NextFilter ==
  \/ AddBoundedCols
  \/ AddRowsForFilter
  \/ MakeInteger
  \/ ElasticityFilterBegin
  \/ ElasticityFilterSolve

SpecFilter == InitFilter /\ [][NextFilter]_vars

\* C2: when elasticityFilter has returned, by whichever path, the LP has the
\* numbers of rows and columns it had on entry, and the cost, lower bound,
\* upper bound and integrality of every column are those it had on entry,
\* whatever the user bound and cost scale exponents are
C2_FilterRestoresModel ==
  call.op = "elasticityFilter" =>
    /\ lp.num_col_ = pre.num_col_
    /\ lp.num_row_ = pre.num_row_
    /\ lp.col_cost_ = pre.col_cost_
    /\ lp.col_lower_ = pre.col_lower_
    /\ lp.col_upper_ = pre.col_upper_
    /\ lp.integrality_ = pre.integrality_

(***************************************************************************)
(* Specification SpecRoundTrip: rows are added and the rows just added are *)
(* deleted again, on models that may carry scale factors                    *)
(***************************************************************************)
InitRoundTrip == \E bs \in {0, MaxScale} : InitWith("kMinimize", bs, 0)

AddColsForRoundTrip ==
  lp.num_col_ = 0 /\ AddColsOf({0}, {NonNegative}, {0})

AddRowsForRoundTrip == AddRowsOf({<<-kHighsInf, Half>>}, {0, 1})

\* The solver computes scale factors for the LP it is given and leaves them
\* in lp.scale_
ConsiderScaling ==
  /\ Idle
  /\ lp.num_col_ > 0
  /\ ~lp.scale_.has_scaling
  /\ \E f \in {Half, One} :
       Commit([Highs EXCEPT
                 !.lp.scale_ = [has_scaling |-> TRUE,
                                num_col |-> lp.num_col_,
                                num_row |-> lp.num_row_,
                                col |-> Const(lp.num_col_, One),
                                row |-> Const(lp.num_row_, f)]])
  /\ Called("considerScaling", "kOk", <<>>)
  /\ pre' = NoPre
  /\ UNCHANGED <<pc, ef>>

\* addRows of K rows; the LP before the call is kept in pre
RoundTripAdd ==
  /\ Idle
  /\ \E K \in 1..(MaxRow - lp.num_row_), nz \in {0, 1}, value \in {One, 2 * One} :
       /\ nz = 1 => lp.num_col_ > 0
       /\ \E r \in {addRowsInterface(Highs, K, Const(K, 0), Const(K, Half), nz,
                                     IF nz = 1 THEN OneEntry(K, 0, value)
                                     ELSE Const(K, <<>>), FALSE, FALSE)} :
            /\ r.status = "kOk"
            /\ Commit(r.h)
            /\ Called("addRows", r.status, [K |-> K, nz |-> nz])
  /\ pre' = lp
  /\ pc' = "rt_delete"
  /\ UNCHANGED ef

\* deleteRows of the interval of the K rows just added
RoundTripDelete ==
  /\ pc = "rt_delete"
  /\ \E r \in {deleteRowsInterface(Highs,
                 Interval(lp.num_row_, lp.num_row_ - call.arg.K,
                          lp.num_row_ - 1),
                 [basic |-> FALSE, nonbasic |-> FALSE])} :
       Commit(r.h) /\ Called("addThenDeleteRows", r.status, call.arg)
  /\ pc' = "idle"
  /\ UNCHANGED <<pre, ef>>

RunForRoundTrip == \E B \in BasicSets(Highs) : RunCall("kOptimal", B, 0)

NextRoundTrip ==
  \/ AddColsForRoundTrip
  \/ AddRowsForRoundTrip
  \/ AddRowsRefused
  \/ ConsiderScaling
  \/ RunForRoundTrip
  \/ RoundTripAdd
  \/ RoundTripDelete

SpecRoundTrip == InitRoundTrip /\ [][NextRoundTrip]_vars

\* C11: when K rows have been added by addRowsInterface and the last K rows
\* have then been deleted by interval with deleteRowsInterface, num_row_, the
\* bounds of every row, the constraint matrix and the row scale factors are
\* what they were before the addition
C11_AddThenDeleteRows ==
  call.op = "addThenDeleteRows" =>
    /\ lp.num_row_ = pre.num_row_
    /\ \A i \in 1..pre.num_row_ :
         /\ lp.row_lower_[i] = pre.row_lower_[i]
         /\ lp.row_upper_[i] = pre.row_upper_[i]
    /\ lp.a_matrix_ = pre.a_matrix_
    /\ lp.scale_.row = pre.scale_.row

\* A round trip on a scaled model that already had a row and an entry, with
\* an entry in the row that came and went
C11_Witness ==
  /\ call.op = "addThenDeleteRows"
  /\ call.arg.nz = 1
  /\ lp.scale_.has_scaling
  /\ lp.num_row_ >= 1
  /\ lp.a_matrix_ # {}

(***************************************************************************)
(* Specification SpecMask: deletions by mask, whose mask the caller reads   *)
(* after the call                                                           *)
(***************************************************************************)
InitMask == InitWith("kMinimize", 0, 0)

AddColsForMask == AddColsOf({0}, {Free, NonNegative}, {0})

AddRowsForMask == AddRowsOf({<<-kHighsInf, One>>}, {0})

RunForMask == \E B \in BasicSets(Highs) : RunCall("kOptimal", B, 0)

\* The mask the caller passes and the mask it holds after the call
DeleteColsByMask ==
  /\ Idle
  /\ \E ic \in Masks(lp.num_col_) :
       \E r \in {deleteColsInterface(Highs, ic,
                                     [basic |-> FALSE, nonbasic |-> FALSE])} :
         /\ Commit(r.h)
         /\ Called("deleteColsMask", r.status,
                   [mask |-> ic.mask_, new_mask |-> r.ic.mask_])
  /\ pre' = NoPre
  /\ UNCHANGED <<pc, ef>>

DeleteRowsByMask ==
  /\ Idle
  /\ \E ic \in Masks(lp.num_row_) :
       \E r \in {deleteRowsInterface(Highs, ic,
                                     [basic |-> FALSE, nonbasic |-> FALSE])} :
         /\ Commit(r.h)
         /\ Called("deleteRowsMask", r.status,
                   [mask |-> ic.mask_, new_mask |-> r.ic.mask_])
  /\ pre' = NoPre
  /\ UNCHANGED <<pc, ef>>

NextMask ==
  \/ AddColsForMask
  \/ AddRowsForMask
  \/ RunForMask
  \/ DeleteColsByMask
  \/ DeleteRowsByMask

SpecMask == InitMask /\ [][NextMask]_vars

\* C12: after deleteColsInterface or deleteRowsInterface with a mask, the
\* entry of every deleted index is -1 and the entry of every kept index is
\* its rank among the kept ones, also when the mask deletes nothing
C12_MaskMapsOldToNew ==
  call.op \in {"deleteColsMask", "deleteRowsMask"} =>
    \A i \in 1..Len(call.arg.mask) :
      call.arg.new_mask[i] =
        IF call.arg.mask[i] # 0 THEN -1
        ELSE Cardinality({j \in 1..(i - 1) : call.arg.mask[j] = 0})

(***************************************************************************)
(* Specification SpecNotify: the change and scale calls, accepted, refused  *)
(* and with nothing to change, and the events each of them produces         *)
(***************************************************************************)
InitNotify == \E bs \in {0, MaxScale} : InitWith("kMinimize", bs, 0)

AddColsForNotify ==
  /\ lp.num_col_ = 0
  /\ AddColsCall(1, <<0>>, <<0>>, <<kHighsInf>>, 0, <<<<>>>>, FALSE, FALSE)

AddRowsForNotify ==
  /\ lp.num_row_ = 0
  /\ lp.num_col_ > 0
  /\ AddRowsCall(1, <<-kHighsInf>>, <<One>>, 1, OneEntry(1, 0, One), FALSE,
                 FALSE)

RunForNotify == \E B \in BasicSets(Highs) : RunCall("kOptimal", B, 0)

\* Collections with and without data: the first index as an interval, a set
\* and a mask, an interval and a set that hold nothing, and a mask that
\* selects nothing
NotifyCollections(dim) ==
  {Interval(dim, 0, 0), Interval(dim, 1, 0), SetOf(dim, <<>>),
   SetOf(dim, <<0>>), MaskOf(dim, Const(dim, 0)),
   MaskOf(dim, [i \in 1..dim |-> IF i = 1 THEN 1 ELSE 0])}

\* The record of a call: empty tells that the collection held no data
Notified(op, status, ic) ==
  Called(op, status, [empty |-> dataSize(ic) <= 0])

ChangeCostsNotify ==
  /\ Idle
  /\ lp.num_col_ > 0
  /\ \E ic \in NotifyCollections(lp.num_col_), c \in {One},
        cost_null \in BOOLEAN :
       \E r \in {changeCostsInterface(Highs, ic, Const(lp.num_col_, c),
                                      cost_null)} :
         Commit(r.h) /\ Notified("changeCosts", r.status, ic)
  /\ pre' = NoPre
  /\ UNCHANGED <<pc, ef>>

ChangeColBoundsNotify ==
  /\ Idle
  /\ lp.num_col_ > 0
  /\ \E ic \in NotifyCollections(lp.num_col_),
        b \in {<<0, 2 * One>>, <<kHighsInf, kHighsInf>>},
        data_null \in BOOLEAN :
       \E r \in {changeColBoundsInterface(Highs, ic, Const(lp.num_col_, b[1]),
                                          Const(lp.num_col_, b[2]),
                                          data_null)} :
         Commit(r.h) /\ Notified("changeColBounds", r.status, ic)
  /\ pre' = NoPre
  /\ UNCHANGED <<pc, ef>>

ChangeRowBoundsNotify ==
  /\ Idle
  /\ lp.num_row_ > 0
  /\ \E ic \in NotifyCollections(lp.num_row_),
        b \in {<<0, 2 * One>>, <<kHighsInf, kHighsInf>>},
        data_null \in BOOLEAN :
       \E r \in {changeRowBoundsInterface(Highs, ic, Const(lp.num_row_, b[1]),
                                          Const(lp.num_row_, b[2]),
                                          data_null)} :
         Commit(r.h) /\ Notified("changeRowBounds", r.status, ic)
  /\ pre' = NoPre
  /\ UNCHANGED <<pc, ef>>

ScaleColNotify ==
  /\ Idle
  /\ \E col \in {-1, 0, lp.num_col_}, scale_value \in {-One, 0} :
       \E r \in {scaleColInterface(Highs, col, scale_value)} :
         Commit(r.h) /\ Called("scaleCol", r.status, [empty |-> FALSE])
  /\ pre' = NoPre
  /\ UNCHANGED <<pc, ef>>

ScaleRowNotify ==
  /\ Idle
  /\ \E row \in {-1, 0, lp.num_row_}, scale_value \in {-One, 0} :
       \E r \in {scaleRowInterface(Highs, row, scale_value)} :
         Commit(r.h) /\ Called("scaleRow", r.status, [empty |-> FALSE])
  /\ pre' = NoPre
  /\ UNCHANGED <<pc, ef>>

NextNotify ==
  \/ AddColsForNotify
  \/ AddRowsForNotify
  \/ RunForNotify
  \/ ChangeCostsNotify
  \/ ChangeColBoundsNotify
  \/ ChangeRowBoundsNotify
  \/ ScaleColNotify
  \/ ScaleRowNotify

SpecNotify == InitNotify /\ [][NextNotify]_vars

\* The tokens of the engine notifications
LpActions == {"kNewCosts", "kNewBounds", "kNewRows", "kNewCols", "kDelCols",
              "kDelRows", "kScaledCol", "kScaledRow"}

\* The token that matches an operation
ActionOf(op) ==
  CASE op = "changeCosts" -> "kNewCosts"
    [] op = "changeColBounds" -> "kNewBounds"
    [] op = "changeRowBounds" -> "kNewBounds"
    [] op = "scaleCol" -> "kScaledCol"
    [] op = "scaleRow" -> "kScaledRow"

InitUserScale == InitWith("kMinimize", 0, 0)

AddColsForUserScale ==
  /\ lp.user_bound_scale_ = 0
  /\ AddColsOf({One}, {<<-kHighsInf, Half>>, <<0, One>>, <<Half, 2 * One>>}, {0})

AddRowsForUserScale ==
  /\ lp.user_bound_scale_ = 0
  /\ AddRowsOf({<<-kHighsInf, One>>, <<Half, Half>>}, {1})

RunForUserScale ==
  /\ lp.num_row_ > 0
  /\ \E B \in {BasicSet \in BasicSets(Highs) : \A j \in BasicSet : j >= lp.num_col_} :
       RunCall("kOptimal", B, 0)

\* Highs::passOptions with the given user bound scale, the cost scale left
\* as it is
userScaleRequest(h, user_bound_scale) ==
  optionChangeAction([h EXCEPT !.options.user_bound_scale = user_bound_scale])

\* The first request, for k, on an LP whose exponent is 0; pre keeps the LP
\* as it was
UserScaleFirst ==
  /\ Idle
  /\ lp.user_bound_scale_ = 0
  /\ lp.num_col_ > 0
  /\ \E k \in ScaleSet :
       \E r \in {userScaleRequest(Highs, k)} :
         /\ r.status = "kOk"
         /\ Commit(r.h)
         /\ Called("userScale", r.status, [k |-> k, k2 |-> 0])
  /\ pre' = lp
  /\ pc' = "us_second"
  /\ UNCHANGED ef

\* A request that is refused ends the sequence
UserScaleRefused ==
  /\ pc \in {"idle", "us_second"}
  /\ lp.num_col_ > 0
  /\ \E k \in ScaleSet :
       \E r \in {userScaleRequest(Highs, k)} :
         /\ r.status = "kError"
         /\ Commit(r.h)
         /\ Called("userScaleRefused", r.status, [k |-> k, k2 |-> 0])
  /\ pre' = NoPre
  /\ pc' = "us_abandon"
  /\ UNCHANGED ef

\* The second request, for k'
UserScaleSecond ==
  /\ pc = "us_second"
  /\ \E k2 \in ScaleSet :
       \E r \in {userScaleRequest(Highs, k2)} :
         /\ r.status = "kOk"
         /\ Commit(r.h)
         /\ Called("userScale", r.status, [k |-> call.arg.k, k2 |-> k2])
  /\ pc' = "us_restore"
  /\ UNCHANGED <<pre, ef>>

\* The request for 0 that ends the sequence, or that follows a refusal
UserScaleRestore ==
  /\ pc \in {"us_restore", "us_abandon"}
  /\ \E r \in {userScaleRequest(Highs, 0)} :
       /\ Commit(r.h)
       /\ Called(IF pc = "us_restore" THEN "userScaleRoundTrip"
                 ELSE "userScaleReset", r.status, call.arg)
  /\ pc' = "idle"
  /\ UNCHANGED <<pre, ef>>

NextUserScale ==
  \/ AddColsForUserScale
  \/ AddRowsForUserScale
  \/ RunForUserScale
  \/ UserScaleFirst
  \/ UserScaleRefused
  \/ UserScaleSecond
  \/ UserScaleRestore

SpecUserScale == InitUserScale /\ [][NextUserScale]_vars

\* C14: when the user bound scale of an LP whose exponent is 0 is set to k,
\* then to k', then to 0, each request being accepted, every column bound and
\* every row bound is what it was before the first request
C14_UserScaleRoundTrip ==
  (call.op = "userScaleRoundTrip" /\ call.status = "kOk") =>
    /\ lp.user_bound_scale_ = 0
    /\ lp.col_lower_ = pre.col_lower_
    /\ lp.col_upper_ = pre.col_upper_
    /\ lp.row_lower_ = pre.row_lower_
    /\ lp.row_upper_ = pre.row_upper_

\* The sequence has ended after two requests that changed the bounds, of
\* opposite sign, on a model with a row and finite bounds
C14_Witness ==
  /\ call.op = "userScaleRoundTrip"
  /\ call.status = "kOk"
  /\ call.arg.k = MaxScale
  /\ call.arg.k2 = -MaxScale
  /\ lp.num_row_ > 0
  /\ \E i \in 1..lp.num_col_ : lp.col_upper_[i] = Half

(***************************************************************************)
(* Specification SpecKkt: lpKktCheck after a solve that ends with or        *)
(* without a basis, under the default tolerances or kkt_tolerance           *)
(***************************************************************************)
InitKkt == InitWith("kMinimize", 0, 0)

AddColsForKkt == AddColsOf({One}, {<<0, One>>}, {0})

AddRowsForKkt == AddRowsOf({<<-kHighsInf, One>>}, {1})

\* The user sets kkt_tolerance
SetKktTolerance ==
  /\ Idle
  /\ \E t \in {kDefaultKktTolerance, One \div 16} :
       /\ t # options.kkt_tolerance
       /\ Commit([Highs EXCEPT !.options.kkt_tolerance = t])
       /\ Called("setOption", "kOk", <<>>)
  /\ UNCHANGED <<pre, pc, ef>>

ClaimedStatuses ==
  {"kOptimal", "kUnknown", "kUnboundedOrInfeasible"}

\* The LP solver ends with a solution, with the model status it claims and
\* with or without a basis; lpKktCheck follows
SolveForKkt ==
  /\ Idle
  /\ lp.num_row_ > 0
  /\ \E claimed \in ClaimedStatuses,
        basis_valid \in BOOLEAN :
       \E solved \in {solverOutcome(Highs, "kOptimal",
                                    lp.num_col_..(lp.num_col_ + lp.num_row_ - 1),
                                    0)} :
         /\ Commit([solved EXCEPT !.model_status = claimed,
                                  !.basis.valid = basis_valid])
         /\ Called("solve", "kOk", <<>>)
  /\ pre' = NoPre
  /\ pc' = "kkt_check"
  /\ UNCHANGED ef

\* The values a measure takes: none, the allowed margin times the tolerance,
\* and just beyond it
Levels(tolerance) ==
  {0, max_allowed_tolerance_relative_violation * tolerance,
   max_allowed_tolerance_relative_violation * tolerance + 1}

CountOver(measure, tolerance) == IF measure > tolerance THEN 1 ELSE 0

StatusOf(num) ==
  IF num > 0 THEN "kSolutionStatusInfeasible" ELSE "kSolutionStatusFeasible"

\* What getLpKktFailures may find.  A count is positive exactly when its
\* measure exceeds the tolerance; a relative measure is at most the absolute
\* one; the residuals are computed only when get_residuals is set, and their
\* counts are kHighsIllegalResidualCount otherwise
KktFailures(tol, get_residuals) ==
  { [primal_solution_status |-> StatusOf(CountOver(p[2], tol.primal_feasibility)),
     dual_solution_status |-> StatusOf(CountOver(d, tol.dual_feasibility)),
     num_primal_infeasibilities |-> CountOver(p[2], tol.primal_feasibility),
     max_primal_infeasibility |-> p[2],
     sum_primal_infeasibilities |-> p[2],
     num_relative_primal_infeasibilities |-> CountOver(p[1], tol.primal_feasibility),
     max_relative_primal_infeasibility |-> p[1],
     num_dual_infeasibilities |-> CountOver(d, tol.dual_feasibility),
     max_dual_infeasibility |-> d,
     sum_dual_infeasibilities |-> d,
     num_relative_dual_infeasibilities |-> CountOver(d, tol.dual_feasibility),
     max_relative_dual_infeasibility |-> d,
     num_primal_residual_errors |->
        IF get_residuals THEN CountOver(rp, tol.primal_residual)
        ELSE kHighsIllegalResidualCount,
     num_relative_primal_residual_errors |->
        IF get_residuals THEN CountOver(rp, tol.primal_residual)
        ELSE kHighsIllegalResidualCount,
     max_relative_primal_residual_error |-> IF get_residuals THEN rp ELSE 0,
     num_relative_dual_residual_errors |->
        IF get_residuals THEN CountOver(rd, tol.dual_residual)
        ELSE kHighsIllegalResidualCount,
     max_relative_dual_residual_error |-> IF get_residuals THEN rd ELSE 0,
     num_complementarity_violations |-> 0,
     primal_dual_objective_error |-> e]
    : p \in {q \in Levels(tol.primal_feasibility) \X Levels(tol.primal_feasibility)
               : q[1] <= q[2]},
      d \in Levels(tol.dual_feasibility),
      rp \in IF get_residuals THEN Levels(tol.primal_residual) ELSE {0},
      rd \in IF get_residuals
             THEN {0, max_allowed_tolerance_relative_violation * tol.dual_residual + 1}
             ELSE {0},
      e \in Levels(tol.optimality) }

\* lpKktCheck, after a solve or while there is no solution
LpKktCheckCall ==
  /\ pc = "kkt_check" \/ (Idle /\ ~solution.value_valid)
  /\ \E kkt \in KktFailures(KktTolerances(options), ~basis.valid) :
       \E h \in {lpKktCheck(Highs, kkt)} :
         /\ Commit(h)
         /\ Called("lpKktCheck", "kOk",
                   [entry |-> model_status, value_valid |-> solution.value_valid])
  /\ pre' = NoPre
  /\ pc' = "idle"
  /\ UNCHANGED ef

NextKkt ==
  \/ AddColsForKkt
  \/ AddRowsForKkt
  \/ SetKktTolerance
  \/ SolveForKkt
  \/ LpKktCheckCall

SpecKkt == InitKkt /\ [][NextKkt]_vars

\* TRUE when the measure, divided by its tolerance, is at most the margin
Within(measure, tolerance) ==
  Ratio(measure, tolerance) <= max_allowed_tolerance_relative_violation * One

\* Every measure the info record holds after the check is within the margin:
\* the primal and dual infeasibilities (those of a basic solution, and the
\* relative ones of a solution without a basis), the relative residual errors
\* when they are known, and the primal-dual objective error
AllMeasuresWithin ==
  LET tol == KktTolerances(options)
  IN /\ Within(IF basis.valid THEN info.max_primal_infeasibility
               ELSE info.max_relative_primal_infeasibility,
               tol.primal_feasibility)
     /\ Within(IF basis.valid THEN info.max_dual_infeasibility
               ELSE info.max_relative_dual_infeasibility,
               tol.dual_feasibility)
     /\ info.num_primal_residual_errors # kHighsIllegalResidualCount =>
          /\ Within(info.max_relative_primal_residual_error, tol.primal_residual)
          /\ Within(info.max_relative_dual_residual_error, tol.dual_residual)
     /\ Within(info.primal_dual_objective_error, tol.optimality)

InitSeed == InitWith("kMinimize", 0, 0)

AddColsForSeed ==
  /\ lp.num_col_ = 0
  /\ AddColsOf({One}, {<<0, One>>}, {0})

\* Rows are added one at a time, each with an entry in the first column
AddRowsForSeed ==
  /\ lp.num_col_ > 0
  /\ lp.num_row_ < MaxRow
  /\ \E b \in {<<-kHighsInf, 0>>, <<Half, Half>>, <<One, kHighsInf>>} :
       AddRowsCall(1, <<b[1]>>, <<b[2]>>, 1, OneEntry(1, 0, One), FALSE, FALSE)

\* Column bounds are not elastic; the rows have a global penalty or one
\* penalty each
SeedPenalties(num_row) ==
  {[global_lower_penalty |-> -1, global_upper_penalty |-> -1,
    global_rhs_penalty |-> g, local_lower_penalty |-> NoPenalties,
    local_upper_penalty |-> NoPenalties, local_rhs_penalty |-> NoPenalties] :
     g \in {0, One}}
  \cup
  {[global_lower_penalty |-> -1, global_upper_penalty |-> -1,
    global_rhs_penalty |-> -1, local_lower_penalty |-> NoPenalties,
    local_upper_penalty |-> NoPenalties, local_rhs_penalty |-> local] :
     local \in [1..num_row -> {-1, 0, One}]}

\* The record r with the fields of extra added
Extend(r, extra) ==
  [f \in (DOMAIN r) \cup (DOMAIN extra) |->
     IF f \in DOMAIN extra THEN extra[f] ELSE r[f]]

\* elasticityFilter up to its first solve.  The penalties of the call and
\* the e-variables fixed so far are kept with the locals of the call
SeedBegin ==
  /\ Idle
  /\ lp.num_row_ > 0
  /\ \E P \in SeedPenalties(lp.num_row_) :
       \E b \in {elasticityFilterBuild(Highs, P, TRUE)} :
         /\ Commit(b.h)
         /\ ef' = Extend(b.ef, [penalties |-> P, fixed |-> {}])
         /\ Called("elasticityFilterBegin", "kOk", [penalties |-> P])
  /\ pre' = lp
  /\ pc' = "ef_solve"

\* The values the solver may give a column
Grid == {0, Half, One}

\* A column without entries is at a bound, as in a basic solution
ColumnValues(l, j) ==
  IF \E entry \in l.a_matrix_ : entry[2] = j - 1
  THEN {g \in Grid : l.col_lower_[j] <= g /\ g <= l.col_upper_[j]}
  ELSE {ValueAt("kBasic", l.col_lower_[j], l.col_upper_[j])}

RECURSIVE Points(_, _)
\* The values of the first k columns
Points(l, k) ==
  IF k = 0 THEN {<<>>}
  ELSE {Append(x, g) : x \in Points(l, k - 1), g \in ColumnValues(l, k)}

SatisfiesRows(l, x) ==
  \E activity \in {matrixProduct(l.a_matrix_, l.num_row_, x)} :
    \A i \in 1..l.num_row_ :
      l.row_lower_[i] <= activity[i] /\ activity[i] <= l.row_upper_[i]

\* The two e-variables of a row have opposite columns, so that at most one
\* of them is basic
OneOfEachPair(e, x) ==
  \A k1, k2 \in 1..Len(e.row_of_ecol) :
    (k1 < k2 /\ e.row_of_ecol[k1] = e.row_of_ecol[k2]) =>
      (x[e.row_ecol_offset + k1] = 0 \/ x[e.row_ecol_offset + k2] = 0)

FeasiblePoints(l, e) ==
  {x \in Points(l, l.num_col_) : SatisfiesRows(l, x) /\ OneOfEachPair(e, x)}

CostOf(l, x) ==
  SumSeq([j \in 1..l.num_col_ |-> (l.col_cost_[j] * x[j]) \div One])

\* The optimal solutions among the feasible points
Cheapest(l, F) ==
  Only({ {p[1] : p \in {q \in priced : \A o \in priced : q[2] <= o[2]}}
         : priced \in {{<<x, CostOf(l, x)>> : x \in F}} })

\* The e-columns whose value exceeds the primal feasibility tolerance
PositiveEcols(e, col_value) ==
  {EcolIndices(e)[k] : k \in {i \in 1..Len(EcolIndices(e)) :
     col_value[EcolIndices(e)[i] + 1] > primal_feasibility_tolerance}}

\* The rows of the e-variables fixed at zero, one entry for each
RowsFixed(e, fixed) ==
  {k \in 1..Len(e.row_of_ecol) : (e.row_ecol_offset + k - 1) \in fixed}

SeedEnd(r, e, path, feasible_model, subset) ==
  /\ Commit(r.h)
  /\ Called("elasticityFilter", r.status,
            [path |-> path, feasible_model |-> feasible_model,
             infeasible_row_subset |-> subset,
             penalties |-> e.penalties,
             row_of_ecol |-> e.row_of_ecol,
             fixed_rows |-> {e.row_of_ecol[k] : k \in RowsFixed(e, e.fixed)}])
  /\ ef' = NoEf
  /\ pc' = "idle"
  /\ UNCHANGED pre

\* The solve of an e-LP that has no feasible point
SeedSolveInfeasible ==
  /\ pc = "ef_solve"
  /\ FeasiblePoints(lp, ef) = {}
  /\ \E solved \in {solveLp(Highs, "kInfeasible", {}).h} :
     \E e \in {[ef EXCEPT !.solved = TRUE, !.solution = solved.solution]} :
       IF ef.solved
       THEN \E r \in {elasticityFilterReturn(solved, e, "kOk", FALSE)},
               subset \in {infeasibleRowSubset(solved.lp, ef, {})} :
              SeedEnd(r, e, "infeasible", FALSE, subset)
       ELSE \E fixed \in {fixPositive(solved, solved.solution.col_value,
                                      EcolIndices(ef), {}, 1)} :
              /\ fixed.num_fixed = 0
              /\ \E r \in {elasticityFilterReturn(fixed.h, e, "kOk", TRUE)},
                    subset \in {infeasibleRowSubset(fixed.h.lp, ef, {})} :
                   SeedEnd(r, e, "feasible", TRUE, subset)

\* The solve of an e-LP that has an optimal solution, and the pass over the
\* e-variables that follows it, lines 2360-2489
SeedSolveOptimal ==
  /\ pc = "ef_solve"
  /\ \E F \in {FeasiblePoints(lp, ef)} :
     \E x \in Cheapest(lp, F) :
     \E solved \in {[solveLp(Highs, "kOptimal", {}).h
                       EXCEPT !.solution.col_value = x]} :
     \E fixed \in {fixPositive(solved, x, EcolIndices(ef), {}, 1)} :
     \E e \in {[ef EXCEPT !.solved = TRUE, !.solution = solved.solution,
                          !.fixed = @ \cup PositiveEcols(ef, x)]} :
       IF fixed.num_fixed = 0
       THEN \E r \in {elasticityFilterReturn(fixed.h, e, "kOk", TRUE)},
               subset \in {infeasibleRowSubset(fixed.h.lp, ef, {})} :
              SeedEnd(r, e, "feasible", TRUE, subset)
       ELSE /\ Commit(fixed.h)
            /\ ef' = e
            /\ Called("elasticityFilterPass", "kOk", <<>>)
            /\ UNCHANGED <<pre, pc>>

NextSeed ==
  \/ AddColsForSeed
  \/ AddRowsForSeed
  \/ SeedBegin
  \/ SeedSolveInfeasible
  \/ SeedSolveOptimal

SpecSeed == InitSeed /\ [][NextSeed]_vars

\* TRUE when the penalty that applies to the row is negative
Exempt(P, iRow) == rhs_penalty(P, iRow) < 0

InSeq(s, x) == \E k \in 1..Len(s) : s[k] = x

\* C16: a row whose applicable row penalty (the local one if local penalties
\* are given, the global one otherwise) is negative gets no elastic variable
\* and is never in infeasible_row_subset
C16_ExemptRowsStayOut ==
  /\ ef.active =>
       \A k \in 1..Len(ef.row_of_ecol) :
         ~Exempt(ef.penalties, ef.row_of_ecol[k])
  /\ call.op = "elasticityFilter" =>
       \A iRow \in 0..(lp.num_row_ - 1) :
         Exempt(call.arg.penalties, iRow) =>
           /\ ~InSeq(call.arg.row_of_ecol, iRow)
           /\ ~InSeq(call.arg.infeasible_row_subset, iRow)

\* The filter has returned a subset with a row in it, on a call with a row
\* that is exempt
C16_Witness ==
  /\ call.op = "elasticityFilter"
  /\ Len(call.arg.infeasible_row_subset) > 0
  /\ \E iRow \in 0..(lp.num_row_ - 1) : Exempt(call.arg.penalties, iRow)

\* C17: when the loop ends because the e-LP has become infeasible,
\* infeasible_row_subset holds exactly the rows with at least one elastic
\* variable fixed at zero, each of them once
C17_SubsetIsFixedRowsOnce ==
  (call.op = "elasticityFilter" /\ call.arg.path = "infeasible") =>
    /\ \A iRow \in 0..(lp.num_row_ - 1) :
         InSeq(call.arg.infeasible_row_subset, iRow)
           <=> iRow \in call.arg.fixed_rows
    /\ \A k1, k2 \in 1..Len(call.arg.infeasible_row_subset) :
         call.arg.infeasible_row_subset[k1] = call.arg.infeasible_row_subset[k2]
           => k1 = k2

\* C18: when the filter concludes that the model is feasible, and every
\* penalty of the call is non-negative, no elastic variable has been fixed
\* at zero and the subset returned is empty
C18_FeasibleFixesNothing ==
  (/\ call.op = "elasticityFilter"
   /\ call.arg.feasible_model
   /\ \A iRow \in 0..(lp.num_row_ - 1) : ~Exempt(call.arg.penalties, iRow)) =>
    /\ call.arg.fixed_rows = {}
    /\ call.arg.infeasible_row_subset = <<>>

(***************************************************************************)
(* Highs::multiobjectiveSolve                                               *)
(***************************************************************************)
\* A HighsLinearObjective is a record of weight, offset, coefficients,
\* abs_tolerance, rel_tolerance and priority.  NoObjective stands for a null
\* pointer
NoObjective == [null |-> TRUE]

Min(a, b) == IF a <= b THEN a ELSE b

\* The product of two numbers
Product(a, b) == (a * b) \div One

\* hasRepeatedLinearObjectivePriorities that compares the priorities of the
\* list with that of the argument only, and not with each other
hasRepeatedLinearObjectivePrioritiesOfArgument(h, linear_objective) ==
  LET mlo == h.multi_linear_objective_
      num_linear_objective == Len(mlo)
  IN IF num_linear_objective <= 0
        \/ (num_linear_objective <= 1 /\ linear_objective = NoObjective)
     THEN FALSE
     ELSE \E iObj0 \in 0..(num_linear_objective - 1) :
            /\ linear_objective # NoObjective
            /\ linear_objective.priority = mlo[iObj0 + 1].priority

\* TRUE when two objectives of the list, or one of the list and the
\* argument, have the same priority
hasRepeatedLinearObjectivePriorities(h, linear_objective) ==
  LET mlo == h.multi_linear_objective_
      num_linear_objective == Len(mlo)
  IN IF num_linear_objective <= 0
        \/ (num_linear_objective <= 1 /\ linear_objective = NoObjective)
     THEN FALSE
     ELSE \E iObj0 \in 0..(num_linear_objective - 1) :
            \/ \E iObj1 \in (iObj0 + 1)..(num_linear_objective - 1) :
                 mlo[iObj1 + 1].priority = mlo[iObj0 + 1].priority
            \/ /\ linear_objective # NoObjective
               /\ linear_objective.priority = mlo[iObj0 + 1].priority

validLinearObjective(h, linear_objective, iObj) ==
  IF Len(linear_objective.coefficients) # h.lp.num_col_ THEN FALSE
  ELSE IF ~h.options.blend_multi_objectives
          /\ hasRepeatedLinearObjectivePriorities(h, linear_objective)
  THEN FALSE
  ELSE TRUE

\* Highs::addLinearObjective: a valid objective joins the list
addLinearObjective(h, linear_objective, iObj) ==
  IF ~validLinearObjective(h, linear_objective, iObj) THEN Ret(h, "kError")
  ELSE Ret([h EXCEPT !.multi_linear_objective_ = Append(@, linear_objective)],
           "kOk")

\* The order of two pairs <<priority, iObj>>
comparison(x1, x2) == x1[1] >= x2[1]

\* std::sort of a short range is an insertion sort: an element that compares
\* before the first goes to the front, otherwise it moves back past the
\* elements it compares before
RECURSIVE linearInsert(_, _)
linearInsert(s, val) ==
  IF s = <<>> THEN <<val>>
  ELSE IF comparison(val, s[Len(s)])
  THEN Append(linearInsert(SubSeq(s, 1, Len(s) - 1), val), s[Len(s)])
  ELSE Append(s, val)

RECURSIVE sort(_)
sort(s) ==
  IF Len(s) <= 1 THEN s
  ELSE Only({
    IF comparison(s[Len(s)], sorted[1]) THEN <<s[Len(s)]>> \o sorted
    ELSE linearInsert(sorted, s[Len(s)])
    : sorted \in {sort(SubSeq(s, 1, Len(s) - 1))} })

\* Highs::clearSolverDualData: the primal solution stays, the model status,
\* the dual values, the basis and the info go
clearSolverDualData(h) ==
  [h EXCEPT !.model_status = "kNotset",
            !.solution.dual_valid = FALSE,
            !.basis.valid = FALSE,
            !.info = InvalidInfo]

\* Highs::optimizeModel with the solver's verdict given: an error leaves the
\* model status unknown, otherwise the solver's outcome on the all-slack
\* basis, the objective value counting the offset of the LP
optimizeModel(h, outcome) ==
  IF outcome.status = "kError"
  THEN Ret([h EXCEPT !.model_status = "kUnknown"], "kError")
  ELSE Only({
    Ret([solved EXCEPT !.info.objective_function_value =
           IF outcome.model_status = "kOptimal" THEN @ + h.lp.offset_ ELSE @],
        "kOk")
    : solved \in {solverOutcome(h, outcome.model_status,
                                h.lp.num_col_ ..
                                  (h.lp.num_col_ + h.lp.num_row_ - 1), 0)} })

\* Highs::setSolution of column values of the size of the model.  status is
\* what the call returns: on kError the solution is not taken
setSolution(h, user_solution, status) ==
  IF status = "kError" THEN Ret(h, "kError")
  ELSE Ret([h EXCEPT !.solution.col_value = user_solution.col_value,
                     !.solution.value_valid = TRUE], status)

\* Highs::addRow is addRows of one row
addRow(h, lower_bound, upper_bound, nnz, entries) ==
  addRowsInterface(h, 1, <<lower_bound>>, <<upper_bound>>, nnz, <<entries>>,
                   FALSE, FALSE)

\* The function, were it to leave the rows appended in the LP
returnFromLexicographicOptimizationKeepingRows(h, return_status, original_lp_num_row) ==
  IF Len(h.multi_linear_objective_) > 1
  THEN Only({
    Ret([deleted EXCEPT
           !.model_status = h.model_status,
           !.info = [h.info EXCEPT
                       !.objective_function_value = 0,
                       !.dual_solution_status = "kSolutionStatusNone",
                       !.num_dual_infeasibilities = kHighsIllegalInfeasibilityCount,
                       !.max_dual_infeasibility = 0,
                       !.sum_dual_infeasibilities = 0],
           !.basis.valid = FALSE,
           !.solution.value_valid = TRUE,
           !.lp.col_cost_ = Const(deleted.lp.num_col_, 0)],
        return_status)
    : deleted \in {h} })
  ELSE Ret(h, return_status)

\* With more than one objective: the rows from original_lp_num_row on are
\* deleted, the model status and the info of the last solve are put back
\* without objective value, basis and dual measures, the primal solution is
\* declared valid and the costs are zeroed
returnFromLexicographicOptimization(h, return_status, original_lp_num_row) ==
  IF Len(h.multi_linear_objective_) > 1
  THEN Only({
    Ret([deleted EXCEPT
           !.model_status = h.model_status,
           !.info = [h.info EXCEPT
                       !.objective_function_value = 0,
                       !.dual_solution_status = "kSolutionStatusNone",
                       !.num_dual_infeasibilities = kHighsIllegalInfeasibilityCount,
                       !.max_dual_infeasibility = 0,
                       !.sum_dual_infeasibilities = 0],
           !.basis.valid = FALSE,
           !.solution.value_valid = TRUE,
           !.lp.col_cost_ = Const(deleted.lp.num_col_, 0)],
        return_status)
    : deleted \in {deleteRows(h, original_lp_num_row, h.lp.num_row_ - 1).h} })
  ELSE Ret(h, return_status)


\* The result of multiobjectiveSolve: the object, the status returned and the
\* log of the lexicographic loop
Lex(r, log) == [h |-> r.h, status |-> r.status, log |-> log]

\* One entry of the log: "solve" once optimizeModel has returned, "addRow"
\* once addRow has returned, with the status the call returned and what the
\* objective, the number of rows and the bounds of the last row of the LP
\* are then
LogEntry(event, h, iObj, priority, status) ==
  [event |-> event, iObj |-> iObj, priority |-> priority, status |-> status,
   model_status |-> h.model_status, offset_ |-> h.lp.offset_,
   col_cost_ |-> h.lp.col_cost_, sense_ |-> h.lp.sense_,
   num_row_ |-> h.lp.num_row_,
   row_lower_ |-> IF h.lp.num_row_ > 0 THEN h.lp.row_lower_[h.lp.num_row_]
                  ELSE 0,
   row_upper_ |-> IF h.lp.num_row_ > 0 THEN h.lp.row_upper_[h.lp.num_row_]
                  ELSE 0]

\* The nonzeros of the costs, as the entries of a row
costEntries(l) ==
  SelectSeq([i \in 1..l.num_col_ |-> <<i - 1, l.col_cost_[i]>>],
            LAMBDA e : e[2] # 0)
\* constraintBounds that looks at the relative tolerance only when there is
\* an absolute tolerance
constraintBoundsAbsFirst(l, objective, linear_objective) ==
  LET abs_tolerance == linear_objective.abs_tolerance
      rel_tolerance == linear_objective.rel_tolerance
      more == Product(objective, One + rel_tolerance)
      less == Product(objective, One - rel_tolerance)
      Shift(x) == IF Abs(x) = kHighsInf THEN x ELSE x - l.offset_
  IN IF l.sense_ = "kMinimize"
     THEN LET u0 == IF abs_tolerance >= 0 THEN objective + abs_tolerance
                    ELSE kHighsInf
              u1 == IF rel_tolerance >= 0 /\ abs_tolerance >= 0
                    THEN Min(IF objective >= 0 THEN more ELSE less, u0)
                    ELSE u0
          IN [lower_bound |-> -kHighsInf, upper_bound |-> Shift(u1)]
     ELSE LET l0 == IF abs_tolerance >= 0 THEN objective - abs_tolerance
                    ELSE -kHighsInf
              l1 == IF rel_tolerance >= 0 /\ abs_tolerance >= 0
                    THEN Max(IF objective >= 0 THEN less ELSE more, l0)
                    ELSE l0
          IN [lower_bound |-> Shift(l1), upper_bound |-> kHighsInf]

\* The bounds of the constraint that keeps an objective solved to the value
\* objective: above it by the tolerances when minimizing, below it when
\* maximizing, a negative tolerance being no tolerance
constraintBounds(l, objective, linear_objective) ==
  LET abs_tolerance == linear_objective.abs_tolerance
      rel_tolerance == linear_objective.rel_tolerance
      more == Product(objective, One + rel_tolerance)
      less == Product(objective, One - rel_tolerance)
      Shift(x) == IF Abs(x) = kHighsInf THEN x ELSE x - l.offset_
  IN IF l.sense_ = "kMinimize"
     THEN LET u0 == IF abs_tolerance >= 0 THEN objective + abs_tolerance
                    ELSE kHighsInf
              u1 == IF rel_tolerance >= 0
                    THEN Min(IF objective >= 0 THEN more ELSE less, u0)
                    ELSE u0
          IN [lower_bound |-> -kHighsInf, upper_bound |-> Shift(u1)]
     ELSE LET l0 == IF abs_tolerance >= 0 THEN objective - abs_tolerance
                    ELSE -kHighsInf
              l1 == IF rel_tolerance >= 0
                    THEN Max(IF objective >= 0 THEN less ELSE more, l0)
                    ELSE l0
          IN [lower_bound |-> Shift(l1), upper_bound |-> kHighsInf]

\* The loop over the sorted objectives from position iIx on.  outcomes[iIx + 1]
\* is the solver's verdict on the solve at position iIx, user_solution the
\* solution kept for the next MIP
RECURSIVE lexicographicLoop(_, _, _, _, _, _, _)
lexicographicLoop(h, priority_objective, iIx, original_lp_num_row, outcomes, user_solution, log) ==
  Only({ Only({
    IF set.status = "kError"
    THEN Lex(returnFromLexicographicOptimization(set.h, "kError",
                                                 original_lp_num_row), log)
    ELSE Only({ Only({
      IF optimized.status = "kError"
      THEN Lex(returnFromLexicographicOptimization(optimized.h, "kError",
                                                   original_lp_num_row),
               solved_log)
      ELSE IF optimized.h.model_status # "kOptimal"
      THEN Lex(returnFromLexicographicOptimization(optimized.h, "kWarning",
                                                   original_lp_num_row),
               solved_log)
      ELSE IF iIx = Len(priority_objective) - 1
      THEN Lex(returnFromLexicographicOptimization(optimized.h, "kOk",
                                                   original_lp_num_row),
               solved_log)
      ELSE Only({ Only({
        lexicographicLoop(
          added.h, priority_objective, iIx + 1, original_lp_num_row, outcomes,
          IF isMip(optimized.h.lp)
          THEN [user_solution EXCEPT
                  !.col_value = optimized.h.solution.col_value,
                  !.value_valid = TRUE]
          ELSE user_solution,
          Append(solved_log,
                 LogEntry("addRow", added.h, priority_objective[iIx + 1][2],
                          priority_objective[iIx + 1][1], added.status)))
        : added \in {addRow(optimized.h, bounds.lower_bound,
                            bounds.upper_bound,
                            Len(costEntries(optimized.h.lp)),
                            costEntries(optimized.h.lp))} })
        : bounds \in {constraintBounds(
                        optimized.h.lp,
                        optimized.h.info.objective_function_value,
                        h.multi_linear_objective_[
                          priority_objective[iIx + 1][2] + 1])} })
      : solved_log \in {Append(log,
                          LogEntry("solve", optimized.h,
                                   priority_objective[iIx + 1][2],
                                   priority_objective[iIx + 1][1],
                                   optimized.status))} })
      : optimized \in {optimizeModel(set.h, outcomes[iIx + 1])} })
    : set \in {IF isMip(loaded.lp) /\ user_solution.value_valid
               THEN setSolution(loaded, user_solution,
                                outcomes[iIx + 1].set_solution)
               ELSE Ret(loaded, "kOk")} })
    : loaded \in {[h EXCEPT
         !.lp.offset_ =
            h.multi_linear_objective_[priority_objective[iIx + 1][2] + 1].offset,
         !.lp.col_cost_ =
            h.multi_linear_objective_[priority_objective[iIx + 1][2] + 1].coefficients,
         !.lp.sense_ =
            IF h.multi_linear_objective_[priority_objective[iIx + 1][2] + 1].weight > 0
            THEN "kMinimize" ELSE "kMaximize"]} })

\* The objectives blended by weight into one objective to minimize
blended(h) ==
  LET mlo == h.multi_linear_objective_
  IN [h EXCEPT
        !.lp.offset_ =
           SumSeq([iObj \in 1..Len(mlo) |->
                     Product(mlo[iObj].weight, mlo[iObj].offset)]),
        !.lp.col_cost_ =
           [iCol \in 1..h.lp.num_col_ |->
              SumSeq([iObj \in 1..Len(mlo) |->
                        Product(mlo[iObj].weight,
                                mlo[iObj].coefficients[iCol])])],
        !.lp.sense_ = "kMinimize"]

\* HighsModel::isQp: the model has a Hessian
isQp(h) == h.hessian_.dim_ # 0

\* multiobjectiveSolve without the refusal of more than one objective for a
\* QP
multiobjectiveSolveOfLp(h, outcomes) ==
  IF \E iObj \in 1..Len(h.multi_linear_objective_) :
       Len(h.multi_linear_objective_[iObj].coefficients) # h.lp.num_col_
  THEN Lex(Ret(h, "kError"), <<>>)
  ELSE Only({
    IF cleared.options.blend_multi_objectives
    THEN Only({
      Lex(optimized, <<LogEntry("solve", optimized.h, -1, 0, optimized.status)>>)
      : optimized \in {optimizeModel(blended(cleared), outcomes[1])} })
    ELSE IF hasRepeatedLinearObjectivePriorities(cleared, NoObjective)
    THEN Lex(Ret(cleared, "kError"), <<>>)
    ELSE lexicographicLoop(
           [cleared EXCEPT !.lp.offset_ = 0,
                           !.lp.col_cost_ = Const(cleared.lp.num_col_, 0)],
           sort([iObj \in 1..Len(cleared.multi_linear_objective_) |->
                   <<cleared.multi_linear_objective_[iObj].priority, iObj - 1>>]),
           0, cleared.lp.num_row_, outcomes, NoSolution, <<>>)
    : cleared \in {clearSolverDualData(h)} })

\* The blended objective is solved at once; the lexicographic branch refuses
\* more than one objective for a QP, then repeated priorities, and goes
\* through the objectives in the order of the sort
multiobjectiveSolve(h, outcomes) ==
  IF \E iObj \in 1..Len(h.multi_linear_objective_) :
       Len(h.multi_linear_objective_[iObj].coefficients) # h.lp.num_col_
  THEN Lex(Ret(h, "kError"), <<>>)
  ELSE Only({
    IF cleared.options.blend_multi_objectives
    THEN Only({
      Lex(optimized, <<LogEntry("solve", optimized.h, -1, 0, optimized.status)>>)
      : optimized \in {optimizeModel(blended(cleared), outcomes[1])} })
    ELSE IF isQp(cleared) /\ Len(cleared.multi_linear_objective_) > 1
    THEN Lex(Ret(cleared, "kError"), <<>>)
    ELSE IF hasRepeatedLinearObjectivePriorities(cleared, NoObjective)
    THEN Lex(Ret(cleared, "kError"), <<>>)
    ELSE lexicographicLoop(
           [cleared EXCEPT !.lp.offset_ = 0,
                           !.lp.col_cost_ = Const(cleared.lp.num_col_, 0)],
           sort([iObj \in 1..Len(cleared.multi_linear_objective_) |->
                   <<cleared.multi_linear_objective_[iObj].priority, iObj - 1>>]),
           0, cleared.lp.num_row_, outcomes, NoSolution, <<>>)
    : cleared \in {clearSolverDualData(h)} })


(***************************************************************************)
(* Multiple linear objectives: the list is built while objectives are      *)
(* blended or lexicographic, the option is switched, and the model solved   *)
(***************************************************************************)
MaxObj == 2

InitLex == InitWith("kMinimize", 0, 0)

AddColsForLex ==
  /\ lp.num_col_ < MaxCol
  /\ AddColsCall(1, <<0>>, <<0>>, <<One>>, 0, <<<<>>>>, FALSE, FALSE)

AddRowsForLex ==
  /\ lp.num_col_ > 0
  /\ lp.num_row_ = 0
  /\ AddRowsCall(1, <<Half>>, <<kHighsInf>>, 1, OneEntry(1, 0, One), FALSE, FALSE)

\* setOptionValue of blend_multi_objectives
SetBlend ==
  /\ Idle
  /\ Commit([Highs EXCEPT !.options.blend_multi_objectives = ~@])
  /\ Called("setOptionValue", "kOk", <<>>)
  /\ pre' = NoPre
  /\ UNCHANGED <<pc, ef>>

\* The objectives of the calls: to minimize or to maximize, with or without
\* offset, with each kind of tolerance, with unit coefficients or with
\* coefficients as large as large_matrix_value
ObjectiveShapes(num_col) ==
  {[weight |-> One, offset |-> 0, coefficients |-> Const(num_col, One),
    abs_tolerance |-> 0, rel_tolerance |-> -One],
   [weight |-> -One, offset |-> Half, coefficients |-> Const(num_col, One),
    abs_tolerance |-> -One, rel_tolerance |-> 0],
   [weight |-> One, offset |-> Half,
    coefficients |-> Const(num_col, large_matrix_value),
    abs_tolerance |-> 0, rel_tolerance |-> 0]}

AddLinearObjective ==
  /\ Idle
  /\ lp.num_col_ > 0
  /\ Len(multi_linear_objective_) < MaxObj
  /\ \E shape \in ObjectiveShapes(lp.num_col_), priority \in 0..(MaxObj - 1) :
       \E r \in {addLinearObjective(
                   Highs,
                   [weight |-> shape.weight, offset |-> shape.offset,
                    coefficients |-> shape.coefficients,
                    abs_tolerance |-> shape.abs_tolerance,
                    rel_tolerance |-> shape.rel_tolerance,
                    priority |-> priority], -1)} :
         Commit(r.h) /\ Called("addLinearObjective", r.status, <<>>)
  /\ pre' = NoPre
  /\ UNCHANGED <<pc, ef>>

\* The verdicts of the solver on the solves of one call: optimal on the
\* first good solves, then failure
Optimal ==
  [status |-> "kOk", model_status |-> "kOptimal", set_solution |-> "kOk"]

Failures ==
  {[status |-> "kOk", model_status |-> "kInfeasible", set_solution |-> "kOk"],
   [status |-> "kError", model_status |-> "kUnknown", set_solution |-> "kOk"]}

Outcomes(num_linear_objective) ==
  {[iIx \in 1..num_linear_objective |-> IF iIx <= good THEN Optimal ELSE failure]
     : good \in 0..num_linear_objective, failure \in Failures}

\* Highs::run with objectives in the list hands the solve to
\* multiobjectiveSolve.  A behaviour builds a model and solves it once
MultiobjectiveSolve ==
  /\ Idle
  /\ Len(multi_linear_objective_) > 0
  /\ \E outcomes \in Outcomes(Len(multi_linear_objective_)) :
       \E r \in {multiobjectiveSolve(Highs, outcomes)} :
         /\ Commit(r.h)
         /\ Called("multiobjectiveSolve", r.status, [log |-> r.log])
  /\ pre' = lp
  /\ pc' = "solved"
  /\ UNCHANGED ef

NextLex ==
  \/ AddColsForLex
  \/ AddRowsForLex
  \/ SetBlend
  \/ AddLinearObjective
  \/ MultiobjectiveSolve

SpecLex == InitLex /\ [][NextLex]_vars

\* TRUE when multiobjectiveSolve has just returned from a call that it took
\* as lexicographic: blending off and every coefficient vector of the size
\* of the model
LexicographicCall ==
  /\ call.op = "multiobjectiveSolve"
  /\ ~options.blend_multi_objectives
  /\ \A iObj \in 1..Len(multi_linear_objective_) :
       Len(multi_linear_objective_[iObj].coefficients) = lp.num_col_

\* TRUE when two objectives of the list have the same priority
RepeatedPriorities ==
  \E iObj0, iObj1 \in 1..Len(multi_linear_objective_) :
    /\ iObj0 # iObj1
    /\ multi_linear_objective_[iObj0].priority =
         multi_linear_objective_[iObj1].priority

\* The positions of the solves in the log
Solves(log) == {i \in 1..Len(log) : log[i].event = "solve"}

\* C19: a lexicographic solve without repeated priorities solves the
\* objectives one at a time in strictly descending priority (the k-th solve
\* is of the objective with k - 1 objectives of higher priority), with the
\* coefficients, the offset and the sense of the objective loaded in the LP
\* at each solve, with exactly one row appended after each solve except the
\* last, and the first solve that errors or is not optimal is the last
C19_LexicographicOrder ==
  (LexicographicCall /\ ~RepeatedPriorities) =>
    LET log == call.arg.log
        mlo == multi_linear_objective_
        Last(i) == \A j \in Solves(log) : j <= i
        Kth(i) == Cardinality({j \in Solves(log) : j <= i})
    IN /\ Solves(log) # {}
       /\ log[1].event = "solve"
       /\ \A i \in Solves(log) :
            /\ Cardinality({iObj \in 1..Len(mlo) :
                              mlo[iObj].priority > log[i].priority})
                 = Kth(i) - 1
            /\ mlo[log[i].iObj + 1].priority = log[i].priority
            /\ log[i].col_cost_ = mlo[log[i].iObj + 1].coefficients
            /\ log[i].offset_ = mlo[log[i].iObj + 1].offset
            /\ log[i].sense_ = IF mlo[log[i].iObj + 1].weight > 0
                               THEN "kMinimize" ELSE "kMaximize"
            /\ IF Last(i)
               THEN /\ i = Len(log)
                    /\ (log[i].status # "kError"
                        /\ log[i].model_status = "kOptimal")
                         => Kth(i) = Len(mlo)
               ELSE /\ log[i].status # "kError"
                    /\ log[i].model_status = "kOptimal"
                    /\ log[i + 1].event = "addRow"
                    /\ log[i + 1].num_row_ = log[i].num_row_ + 1
                    /\ log[i + 2].event = "solve"

\* C20: a lexicographic solve with repeated priorities returns kError before
\* any solve, and leaves the costs, the offset, the sense and the rows of
\* the LP as they were
C20_RepeatedPrioritiesRejected ==
  (LexicographicCall /\ RepeatedPriorities) =>
    /\ call.status = "kError"
    /\ call.arg.log = <<>>
    /\ lp.col_cost_ = pre.col_cost_
    /\ lp.offset_ = pre.offset_
    /\ lp.sense_ = pre.sense_
    /\ lp.num_row_ = pre.num_row_
    /\ lp.a_matrix_ = pre.a_matrix_
    /\ \A iRow \in 1..pre.num_row_ :
         /\ lp.row_lower_[iRow] = pre.row_lower_[iRow]
         /\ lp.row_upper_[iRow] = pre.row_upper_[iRow]

\* multiobjectiveSolve has refused two objectives of the same priority on a
\* model with a row
C20_Witness ==
  /\ LexicographicCall
  /\ RepeatedPriorities
  /\ lp.num_row_ > 0
  /\ Len(multi_linear_objective_) = 2


(***************************************************************************)
(* Multiple linear objectives on a model with a Hessian                     *)
(***************************************************************************)
\* Highs::passHessian of a Hessian of the dimension of the model
PassHessian ==
  /\ Idle
  /\ lp.num_col_ > 0
  /\ hessian_.dim_ = 0
  /\ Commit([Highs EXCEPT !.hessian_.dim_ = lp.num_col_])
  /\ Called("passHessian", "kOk", <<>>)
  /\ pre' = NoPre
  /\ UNCHANGED <<pc, ef>>

NextQp ==
  \/ AddColsForLex
  \/ PassHessian
  \/ SetBlend
  \/ AddLinearObjective
  \/ MultiobjectiveSolve

SpecQp == InitLex /\ [][NextQp]_vars

QpCall ==
  /\ call.op = "multiobjectiveSolve"
  /\ hessian_.dim_ # 0
  /\ Len(multi_linear_objective_) > 1
  /\ \A iObj \in 1..Len(multi_linear_objective_) :
       Len(multi_linear_objective_[iObj].coefficients) = lp.num_col_

AddColsForPin ==
  /\ lp.num_col_ < MaxCol
  /\ AddColsCall(1, <<0>>, <<-One>>, <<Half>>, 0, <<<<>>>>, FALSE, FALSE)

Tolerances == {<<-One, -One>>, <<0, -One>>, <<-One, Half>>, <<Half, Half>>}

\* The objective of priority 0, which is never pinned, is to minimize without
\* offset and has zero tolerances

AddPinnedObjective ==
  /\ Idle
  /\ lp.num_col_ > 0
  /\ Len(multi_linear_objective_) < MaxObj
  /\ \E weight \in {-One, One}, offset \in {-One, Half}, tolerance \in Tolerances :
       \E r \in {addLinearObjective(
                   Highs,
                   [weight |-> IF Len(multi_linear_objective_) = MaxObj - 1
                               THEN One ELSE weight,
                    offset |-> IF Len(multi_linear_objective_) = MaxObj - 1
                               THEN 0 ELSE offset,
                    coefficients |-> Const(lp.num_col_, One),
                    abs_tolerance |-> IF Len(multi_linear_objective_) = MaxObj - 1
                                      THEN 0 ELSE tolerance[1],
                    rel_tolerance |-> IF Len(multi_linear_objective_) = MaxObj - 1
                                      THEN 0 ELSE tolerance[2],
                    priority |-> MaxObj - 1 - Len(multi_linear_objective_)],
                   -1)} :
         Commit(r.h) /\ Called("addLinearObjective", r.status, <<>>)
  /\ pre' = NoPre
  /\ UNCHANGED <<pc, ef>>

NextPin ==
  \/ AddColsForPin
  \/ SetBlend
  \/ AddPinnedObjective
  \/ MultiobjectiveSolve

SpecPin == InitLex /\ [][NextPin]_vars

\* The positions in the log of the rows appended
Appended(log) ==
  {i \in 1..Len(log) : log[i].event = "addRow" /\ log[i].status # "kError"}

Finite(x) == Abs(x) < kHighsInf

\* TRUE when the row's upper bound is finite and its lower bound infinite if
\* the objective was minimized, the other way round if it was maximized
OneSided(entry) ==
  IF entry.sense_ = "kMinimize"
  THEN Finite(entry.row_upper_) /\ entry.row_lower_ = -kHighsInf
  ELSE Finite(entry.row_lower_) /\ entry.row_upper_ = kHighsInf

\* C22: the row appended after a lexicographic solve that is not the last
\* has a finite upper and an infinite lower bound when the objective was
\* minimized, a finite lower and an infinite upper bound when it was
\* maximized, whatever the tolerances of the objective
C22_ConstraintOneSided ==
  LexicographicCall =>
    \A i \in Appended(call.arg.log) : OneSided(call.arg.log[i])

\* C22 as amended: the row is one-sided in that way when at least one of the
\* two tolerances of the objective is non-negative, and has both bounds
\* infinite when both are negative
C22_ConstraintOneSidedWithTolerance ==
  LexicographicCall =>
    \A i \in Appended(call.arg.log) :
      LET entry == call.arg.log[i]
          linear_objective == multi_linear_objective_[entry.iObj + 1]
      IN IF linear_objective.abs_tolerance >= 0
            \/ linear_objective.rel_tolerance >= 0
         THEN OneSided(entry)
         ELSE entry.row_lower_ = -kHighsInf /\ entry.row_upper_ = kHighsInf

\* A row with a finite lower bound has been appended for a maximized
\* objective that has a relative tolerance only
C22_Witness ==
  /\ LexicographicCall
  /\ \E i \in Appended(call.arg.log) :
       /\ call.arg.log[i].sense_ = "kMaximize"
       /\ multi_linear_objective_[call.arg.log[i].iObj + 1].abs_tolerance < 0
       /\ multi_linear_objective_[call.arg.log[i].iObj + 1].rel_tolerance > 0
       /\ Finite(call.arg.log[i].row_lower_)


(***************************************************************************)
(* Highs::getDualRayInterface                                               *)
(***************************************************************************)
\* The result of a ray call: the object, the status, the two things handed
\* back through the arguments and the solves made, "run" for a solve of the
\* LP and "basisSolve" for a solve with the basis matrix
Ray(h, status, has_dual_ray, dual_ray_value, solves) ==
  [h |-> h, status |-> status, has_dual_ray |-> has_dual_ray,
   dual_ray_value |-> dual_ray_value, solves |-> solves, returned |-> FALSE]

\* HEkk::btran for a basis of logicals: the basic variable of position iRow
\* is the logical of some row k, and the solution at k is the right-hand
\* side at iRow.  The bases of the specifications are made of logicals
btran(h, rhs) ==
  [k \in 1..h.lp.num_row_ |->
     SumSeq([iRow \in 1..h.lp.num_row_ |->
               IF h.ekk.basicIndex_[iRow] = h.lp.num_col_ + k - 1
               THEN rhs[iRow] ELSE 0])]

\* HEkk::ftran with the factor of a basis of logicals
ftran(h, rhs) ==
  [iRow \in 1..h.lp.num_row_ |->
     SumSeq([k \in 1..h.lp.num_row_ |->
               IF h.ekk.basicIndex_[iRow] = h.lp.num_col_ + k - 1
               THEN rhs[k] ELSE 0])]

\* The rows of the nonzeros of a vector, in ascending order
Nonzeros(array) == SortedSeq({iRow \in 0..(Len(array) - 1) : array[iRow + 1] # 0})

\* The HVector after the solve.  known is whether the engine reports the
\* nonzeros: if so count is their number and index lists them, if not count
\* is above num_row
solveVector(h, rhs, transpose, known) ==
  Only({
    [array |-> array,
     index |-> IF known THEN Nonzeros(array) ELSE <<>>,
     count |-> IF known THEN Len(Nonzeros(array)) ELSE h.lp.num_row_ + 1]
    : array \in {IF transpose THEN btran(h, rhs) ELSE ftran(h, rhs)} })

\* What the caller of basisSolveInterface holds after the call.  fault: a
\* read through the null pointer has ended the call; outside: an entry has
\* been written outside solution_indices
Solved(solution_vector, solution_num_nz, solution_indices, fault, outside) ==
  [status |-> "kOk", solution_vector |-> solution_vector,
   solution_num_nz |-> solution_num_nz, solution_indices |-> solution_indices,
   fault |-> fault, outside |-> outside]

\* Lines 1572-1580: the loop over the rows when the nonzeros are not known.
\* Line 1573 has set the pointer solution_num_nz to null, so that the
\* caller's number is not written, and line 1578 reads the index of the
\* entry through the pointer before it moves the pointer on: reads[k] is what
\* the read for the k-th nonzero does, it ends the call or it finds a value
RECURSIVE unknownNonzeros(_, _, _, _, _)
unknownNonzeros(array, iRow, k, reads, sol) ==
  IF iRow >= Len(array) THEN sol
  ELSE IF array[iRow + 1] = 0
  THEN unknownNonzeros(array, iRow + 1, k, reads,
                       [sol EXCEPT !.solution_vector[iRow + 1] = 0])
  ELSE IF reads[k].fault
  THEN [sol EXCEPT !.solution_vector[iRow + 1] = array[iRow + 1],
                   !.fault = TRUE]
  ELSE unknownNonzeros(
         array, iRow + 1, k + 1, reads,
         [sol EXCEPT
            !.solution_vector[iRow + 1] = array[iRow + 1],
            !.solution_indices =
               IF reads[k].value \in 0..(Len(@) - 1)
               THEN [@ EXCEPT ![reads[k].value + 1] = iRow] ELSE @,
            !.outside =
               @ \/ reads[k].value \notin 0..(Len(sol.solution_indices) - 1)])

\* Highs::basisSolveInterface.  Without solution_indices the solution is
\* copied.  With it, the nonzeros that the engine reports are copied with
\* their number, and nonzeros that it does not report are looked for
basisSolveInterface(h, rhs, solution_vector, solution_num_nz, solution_indices, indices_null, transpose, known, reads) ==
  IF h.lp.num_row_ = 0
  THEN Solved(solution_vector, solution_num_nz, solution_indices, FALSE, FALSE)
  ELSE Only({
    IF indices_null
    THEN Solved(solve_vector.array, solution_num_nz, solution_indices, FALSE,
                FALSE)
    ELSE IF solve_vector.count > h.lp.num_row_
    THEN unknownNonzeros(solve_vector.array, 0, 1, reads,
                         Solved(solution_vector, solution_num_nz,
                                solution_indices, FALSE, FALSE))
    ELSE Solved(solve_vector.array, solve_vector.count,
                [iX \in 1..Len(solution_indices) |->
                   IF iX <= solve_vector.count THEN solve_vector.index[iX]
                   ELSE solution_indices[iX]],
                FALSE, FALSE)
    : solve_vector \in {solveVector(h, rhs, transpose, known)} })

\* Highs::run with the engine's verdict given: when the engine has found the
\* LP infeasible it records the index and the sign of a dual ray
runForRay(h, outcome) ==
  IF outcome.status = "kError"
  THEN Ret([h EXCEPT !.model_status = "kUnknown"], "kError")
  ELSE Only({
    IF r.status = "kError" THEN r
    ELSE Ret([r.h EXCEPT !.ekk.dual_ray_record_ =
                [index |-> outcome.index, sign |-> outcome.sign,
                 value |-> <<>>]], r.status)
    : r \in {run(h, outcome.model_status,
                 h.lp.num_col_ .. (h.lp.num_col_ + h.lp.num_row_ - 1),
                 IF outcome.model_status = "kInfeasible" THEN One ELSE 0)} })

\* The solve of the feasibility problem: costs zeroed through changeColsCost,
\* with the record of the primal ray put back after it, any Hessian zeroed,
\* presolve off and the relaxation solved
feasibilitySolve(h, outcome) ==
  Only({
    runForRay([zeroed EXCEPT
                 !.ekk.primal_ray_record_ = h.ekk.primal_ray_record_,
                 !.hessian_ = IF isQp(h) THEN [dim_ |-> 0] ELSE @,
                 !.options.presolve = "off",
                 !.options.solve_relaxation = TRUE], outcome)
    : zeroed \in {changeColsCost(h, 0, h.lp.num_col_ - 1,
                                 Const(h.lp.num_col_, 0)).h} })

\* What the call puts back, and what it drops from the info, after a solve
\* of the feasibility problem; saved is the object on entry
afterFeasibilitySolve(h, saved, has_dual_ray) ==
  Only({
    IF has_dual_ray THEN restored
    ELSE [restored EXCEPT
            !.info.num_primal_infeasibilities = kHighsIllegalInfeasibilityCount,
            !.info.max_primal_infeasibility = 0,
            !.info.sum_primal_infeasibilities = 0,
            !.model_status = "kNotset"]
    : restored \in {[h EXCEPT
         !.lp.col_cost_ = saved.lp.col_cost_,
         !.hessian_ = IF isQp(saved) THEN saved.hessian_ ELSE @,
         !.options.presolve = saved.options.presolve,
         !.options.solve_relaxation = saved.options.solve_relaxation,
         !.info.primal_solution_status = "kSolutionStatusNone",
         !.info.dual_solution_status = "kSolutionStatusNone",
         !.info.objective_function_value = 0,
         !.info.num_dual_infeasibilities = kHighsIllegalInfeasibilityCount,
         !.info.max_dual_infeasibility = 0,
         !.info.sum_dual_infeasibilities = 0]} })

\* The part of the call that hands the ray back: a vector in the record is
\* copied, a ray known by index and sign is computed with the factor and
\* saved in the record, and without a factor the call fails
dualRayValue(h, status, dual_ray_value, solves) ==
  IF h.ekk.dual_ray_record_.index # kNoRayIndex
  THEN IF Len(h.ekk.dual_ray_record_.value) # 0
       THEN Ray(h, status, TRUE, h.ekk.dual_ray_record_.value, solves)
       ELSE IF h.ekk.has_invert
       THEN Only({
         Ray([h EXCEPT !.ekk.dual_ray_record_.value = computed], status, TRUE,
             computed, Append(solves, "basisSolve"))
         : computed \in {basisSolveInterface(
                           h,
                           [iRow \in 1..h.lp.num_row_ |->
                              IF iRow - 1 = h.ekk.dual_ray_record_.index
                              THEN h.ekk.dual_ray_record_.sign * One ELSE 0],
                           dual_ray_value, 0, <<>>, TRUE, TRUE, TRUE,
                           <<>>).solution_vector} })
       ELSE Ray(h, "kError", TRUE, dual_ray_value, solves)
  ELSE Ray(h, "kOk", FALSE, dual_ray_value, solves)

\* getDualRayInterface that does not save the vector it computes
getDualRayInterfaceNoSave(h, has_dual_ray, value_null, dual_ray_value, outcome) ==
  IF h.lp.num_row_ = 0
  THEN Ray(h, "kOk", has_dual_ray, dual_ray_value, <<>>)
  ELSE IF value_null
  THEN Ray(h, "kOk", h.ekk.dual_ray_record_.index # kNoRayIndex,
           dual_ray_value, <<>>)
  ELSE IF h.ekk.dual_ray_record_.index # kNoRayIndex /\ h.ekk.has_invert
  THEN Only({
    [ray EXCEPT !.h.ekk.dual_ray_record_.value = h.ekk.dual_ray_record_.value]
    : ray \in {dualRayValue(h, "kOk", dual_ray_value, <<>>)} })
  ELSE IF h.model_status = "kOptimal"
  THEN Ray(h, "kOk", h.ekk.dual_ray_record_.index # kNoRayIndex,
           dual_ray_value, <<>>)
  ELSE Only({ Only({
    [ray EXCEPT !.h = afterFeasibilitySolve(ray.h, h, ray.has_dual_ray)]
    : ray \in {dualRayValue(solved.h, solved.status, dual_ray_value,
                            <<"run">>)} })
    : solved \in {feasibilitySolve(h, outcome)} })

\* value_null is TRUE when the caller gives no array for the ray, and
\* dual_ray_value is the array given otherwise; has_dual_ray is the
\* caller's flag on entry
getDualRayInterface(h, has_dual_ray, value_null, dual_ray_value, outcome) ==
  IF h.lp.num_row_ = 0
  THEN Ray(h, "kOk", has_dual_ray, dual_ray_value, <<>>)
  ELSE IF value_null
  THEN Ray(h, "kOk", h.ekk.dual_ray_record_.index # kNoRayIndex,
           dual_ray_value, <<>>)
  ELSE IF h.ekk.dual_ray_record_.index # kNoRayIndex /\ h.ekk.has_invert
  THEN dualRayValue(h, "kOk", dual_ray_value, <<>>)
  ELSE IF h.model_status = "kOptimal"
  THEN Ray(h, "kOk", h.ekk.dual_ray_record_.index # kNoRayIndex,
           dual_ray_value, <<>>)
  ELSE Only({ Only({
    [ray EXCEPT !.h = afterFeasibilitySolve(ray.h, h, ray.has_dual_ray)]
    : ray \in {dualRayValue(solved.h, solved.status, dual_ray_value,
                            <<"run">>)} })
    : solved \in {feasibilitySolve(h, outcome)} })


(***************************************************************************)
(* Dual rays: a model is built and solved, the ray is asked for, with or    *)
(* without an array for it, and costs are changed                           *)
(***************************************************************************)
AddColsForRay ==
  /\ lp.num_col_ = 0
  /\ AddColsCall(1, <<One>>, <<0>>, <<One>>, 0, <<<<>>>>, FALSE, FALSE)

AddRowsForRay ==
  /\ lp.num_col_ > 0
  /\ lp.num_row_ < MaxRow
  /\ \E b \in {<<-kHighsInf, 0>>, <<One, kHighsInf>>} :
       AddRowsCall(1, <<b[1]>>, <<b[2]>>, 1, OneEntry(1, 0, One), FALSE, FALSE)

\* The verdicts of the engine on a solve: infeasible with the index and the
\* sign of a dual ray, optimal, or an error
RayOutcomes(num_row) ==
  {[status |-> "kOk", model_status |-> "kInfeasible", index |-> index,
    sign |-> sign] : index \in 0..(num_row - 1), sign \in {-1, 1}}
  \cup {[status |-> "kOk", model_status |-> "kOptimal", index |-> kNoRayIndex,
         sign |-> 0],
        [status |-> "kError", model_status |-> "kUnknown",
         index |-> kNoRayIndex, sign |-> 0]}

SolveForRay ==
  /\ Idle
  /\ lp.num_row_ > 0
  /\ \E outcome \in RayOutcomes(lp.num_row_) :
       \E r \in {runForRay(Highs, outcome)} :
         Commit(r.h) /\ Called("run", r.status, <<>>)
  /\ pre' = NoPre
  /\ UNCHANGED <<pc, ef>>

ChangeCostForRay ==
  /\ Idle
  /\ lp.num_col_ > 0
  /\ \E cost \in {0, One} :
       \E r \in {changeColsCost(Highs, 0, 0, <<cost>>)} :
         Commit(r.h) /\ Called("changeColsCost", r.status, <<>>)
  /\ pre' = NoPre
  /\ UNCHANGED <<pc, ef>>

\* Highs::getDualRay: the caller's flag starts FALSE and its array zero
GetDualRay ==
  /\ Idle
  /\ \E value_null \in BOOLEAN, outcome \in RayOutcomes(lp.num_row_) :
       \E r \in {getDualRayInterface(Highs, FALSE, value_null,
                                     Const(lp.num_row_, 0), outcome)} :
         /\ Commit(r.h)
         /\ Called("getDualRay", r.status,
                   [value_null |-> value_null, has_dual_ray |-> r.has_dual_ray,
                    dual_ray_value |-> r.dual_ray_value, solves |-> r.solves])
  /\ pre' = NoPre
  /\ UNCHANGED <<pc, ef>>

NextRay ==
  \/ AddColsForRay
  \/ AddRowsForRay
  \/ SolveForRay
  \/ ChangeCostForRay
  \/ GetDualRay

SpecRay == InitLex /\ [][NextRay]_vars

InSolves(solves, x) == \E k \in 1..Len(solves) : solves[k] = x

\* C24: a call of getDualRayInterface for the vector that computes it with a
\* basis solve leaves it in the ray record, and a call made while the record
\* holds a vector returns that vector, makes no basis solve and no solve of
\* the LP, and leaves the record as it is
C24_DualRayCached ==
  [][(call'.op = "getDualRay" /\ ~call'.arg.value_null) =>
       /\ InSolves(call'.arg.solves, "basisSolve") =>
            /\ ekk'.dual_ray_record_.value = call'.arg.dual_ray_value
            /\ Len(ekk'.dual_ray_record_.value) = lp.num_row_
       /\ Len(ekk.dual_ray_record_.value) # 0 =>
            /\ call'.arg.dual_ray_value = ekk.dual_ray_record_.value
            /\ call'.arg.solves = <<>>
            /\ ekk'.dual_ray_record_ = ekk.dual_ray_record_]_vars

\* A call has returned, without a solve, the vector of a ray of negative sign
\* on the second row that an earlier call had left in the record
C24_Witness ==
  /\ call.op = "getDualRay"
  /\ ~call.arg.value_null
  /\ call.arg.solves = <<>>
  /\ ekk.dual_ray_record_.index = 1
  /\ call.arg.dual_ray_value = <<0, -One>>
  /\ call.arg.dual_ray_value = ekk.dual_ray_record_.value

(***************************************************************************)
(* The basis after columns and rows are added                               *)
(***************************************************************************)
Fixed == <<Half, Half>>
UpperOnly == <<-kHighsInf, One>>
BoxedNearLower == <<-Half, One>>
BoxedNearUpper == <<-One, Half>>
BoxedSymmetric == <<-One, One>>

BoundShapes ==
  {Fixed, NonNegative, UpperOnly, BoxedNearLower, BoxedNearUpper,
   BoxedSymmetric, Free}

\* Highs::addCols with columns of every shape of bounds
AddColsForAppend == AddColsOf({0}, BoundShapes, {0})

\* Highs::addRows with rows bounded above
AddRowsForAppend == AddRowsOf({<<-kHighsInf, One>>}, {0})

NextAppend ==
  \/ AddColsForAppend
  \/ AddRowsForAppend
  \/ Run

SpecAppend == InitAdd /\ [][NextAppend]_vars

\* The status the basis gives a new nonbasic column with the given bounds
StatusOfBounds(lower, upper) ==
  CASE lower = upper -> "kLower"
    [] lower # upper /\ Finite(lower) /\ ~Finite(upper) -> "kLower"
    [] lower # upper /\ Finite(lower) /\ Finite(upper)
       /\ Abs(lower) < Abs(upper) -> "kLower"
    [] lower # upper /\ Finite(lower) /\ Finite(upper)
       /\ Abs(lower) >= Abs(upper) -> "kUpper"
    [] ~Finite(lower) /\ Finite(upper) -> "kUpper"
    [] ~Finite(lower) /\ ~Finite(upper) -> "kZero"

\* C23: on a model with a useful basis a successful addCols gives every new
\* column the nonbasic status of its bounds (Lower when fixed, bounded below
\* only, or boxed with |lower| < |upper|; Upper when bounded above only or
\* boxed otherwise; Zero when free), a successful addRows makes every new row
\* Basic, and both leave the statuses of the existing columns and rows as
\* they were
C23_AppendedStatuses ==
  [][(basis.useful /\ call'.status = "kOk") =>
       /\ call'.op = "addCols" =>
            /\ Len(basis'.col_status) = lp'.num_col_
            /\ \A i \in 1..lp'.num_col_ :
                 IF i <= lp.num_col_
                 THEN basis'.col_status[i] = basis.col_status[i]
                 ELSE /\ basis'.col_status[i] =
                           StatusOfBounds(lp'.col_lower_[i], lp'.col_upper_[i])
                      /\ ekk'.has_basis =>
                           ekk'.nonbasicFlag_[i] = kNonbasicFlagTrue
            /\ basis'.row_status = basis.row_status
       /\ call'.op = "addRows" =>
            /\ Len(basis'.row_status) = lp'.num_row_
            /\ \A i \in 1..lp'.num_row_ :
                 IF i <= lp.num_row_
                 THEN basis'.row_status[i] = basis.row_status[i]
                 ELSE basis'.row_status[i] = "kBasic"
            /\ basis'.col_status = basis.col_status]_vars

\* A boxed column with |lower| > |upper| has been added behind a basic column
\* of a model whose basis was useful, and it is nonbasic at its upper bound
C23_Witness ==
  /\ call.op = "addCols"
  /\ call.status = "kOk"
  /\ basis.useful
  /\ lp.num_col_ = 2
  /\ lp.col_lower_[2] < 0
  /\ Finite(lp.col_lower_[2])
  /\ Abs(lp.col_lower_[2]) > Abs(lp.col_upper_[2])
  /\ basis.col_status = <<"kBasic", "kUpper">>

(***************************************************************************)
(* The free-format MPS reader HMpsFF. A file is a sequence of lines, a     *)
(* line is the sequence of its words (strings, separated in the file by    *)
(* single blanks); the empty sequence is a blank line and a line whose     *)
(* first word is "*" is a comment. Numbers are in the fixed point of One.  *)
(***************************************************************************)
\* The first character of a word and the rest of it, for the words of more
\* than one character that the files of the model begin a line with
Letters ==
  [w \in {"LO", "LI", "NAME", "NCOST", "ENDATA", "GE"} |->
     CASE w = "LO" -> <<"L", "O">>
       [] w = "LI" -> <<"L", "I">>
       [] w = "NAME" -> <<"N", "AME">>
       [] w = "NCOST" -> <<"N", "COST">>
       [] w = "ENDATA" -> <<"E", "NDATA">>
       [] w = "GE" -> <<"G", "E">>]

\* strline[start] and the text from start + 1 to the end of the first word;
\* a first word outside Letters begins with none of G, E, L, N
firstChar(word) ==
  IF Len(word) = 1 THEN word
  ELSE IF word \in DOMAIN Letters THEN Letters[word][1] ELSE "?"

restOfWord(word) ==
  IF Len(word) = 1 THEN ""
  ELSE IF word \in DOMAIN Letters THEN Letters[word][2] ELSE word

\* toupper on the words: the files spell keywords in capitals, but for these
LowerCase == [w \in {"rows", "Endata"} |-> IF w = "rows" THEN "ROWS" ELSE "ENDATA"]

toupper(word) == IF word \in DOMAIN LowerCase THEN LowerCase[word] ELSE word

\* atof on a word after a d or D has been replaced by E: the value of the
\* longest prefix that reads as a number, 0 when there is none
Numbers ==
  [w \in {"0", "1", "2", "-1", "0.5", "1D1", "1e1", "2.5"} |->
     CASE w = "0" -> 0
       [] w = "1" -> One
       [] w = "2" -> 2 * One
       [] w = "-1" -> -One
       [] w = "0.5" -> Half
       [] w = "1D1" -> 10 * One
       [] w = "1e1" -> 10 * One
       [] w = "2.5" -> 2 * One + Half]

getValue(word) == IF word \in DOMAIN Numbers THEN Numbers[word] ELSE 0

\* The k-th word of a line, "" beyond its end (first_word after k - 1 words)
WordAt(strline, k) == IF k <= Len(strline) THEN strline[k] ELSE ""

\* The position in the line at which its k-th word ends
RECURSIVE EndOf(_, _)
EndOf(strline, k) ==
  IF k = 0 THEN 0
  ELSE IF k > Len(strline) THEN EndOf(strline, Len(strline))
  ELSE IF k = 1 THEN Len(strline[1])
  ELSE EndOf(strline, k - 1) + 1 + Len(strline[k])

\* The size of the text made of the words of a sequence
TextSize(words) == EndOf(words, Len(words))

\* The size of the first n characters of a line without its trailing blanks
PrefixSize(strline, n) ==
  LET ends == {Min(EndOf(strline, k), n) :
                 k \in {j \in 1..Len(strline) :
                          EndOf(strline, j) - Len(strline[j]) < n}}
  IN IF ends = {} THEN 0 ELSE CHOOSE e \in ends : \A f \in ends : f <= e
\* An insertion that replaces the index of a name that the map holds
emplaceLast(map, name, index) ==
  [x \in DOMAIN map \cup {name} |-> IF x = name THEN index ELSE map[x]]

\* std::map::emplace and find on a map from names to indices
emplace(map, name, index) ==
  IF name \in DOMAIN map THEN map
  ELSE [x \in DOMAIN map \cup {name} |-> IF x = name THEN index ELSE map[x]]

NoNames == [x \in {} |-> 0]

\* An HMpsFF object that has read nothing of its file. is_open tells whether
\* the file opens, deadline is the number of the line at whose reading the
\* time limit has passed (0 when it never does), assertions whether the
\* build keeps its assert statements; pos is the number of lines read and
\* eof the state of the stream once a read has found no line
HMpsFF(file, is_open, deadline, assertions) ==
  [file |-> file, is_open |-> is_open, deadline |-> deadline,
   assertions |-> assertions, aborted |-> FALSE, pos |-> 0, eof |-> FALSE,
   num_row |-> 0, num_col |-> 0, num_nz |-> 0, cost_row_location |-> -1,
   obj_sense |-> "kMinimize", obj_offset |-> 0, objective_name |-> "",
   mps_name |-> "", section_args |-> <<>>, warning_issued_ |-> FALSE,
   has_duplicate_row_name_ |-> FALSE, duplicate_row_name_ |-> "",
   duplicate_row_name_index0_ |-> 0, duplicate_row_name_index1_ |-> 0,
   has_duplicate_col_name_ |-> FALSE, duplicate_col_name_ |-> "",
   duplicate_col_name_index0_ |-> 0, duplicate_col_name_index1_ |-> 0,
   rowname2idx |-> NoNames, colname2idx |-> NoNames,
   row_names |-> <<>>, col_names |-> <<>>,
   row_lower |-> <<>>, row_upper |-> <<>>, row_type |-> <<>>,
   col_lower |-> <<>>, col_upper |-> <<>>,
   col_integrality |-> <<>>, col_binary |-> <<>>,
   coeffobj |-> <<>>, entries |-> <<>>,
   has_row_entry_ |-> <<>>, has_obj_entry_ |-> FALSE,
   q_entries |-> <<>>, qrows_entries |-> <<>>,
   sos_name |-> <<>>, sos_entries |-> <<>>, cone_entries |-> <<>>,
   log |-> <<>>, keys |-> <<>>]

\* highsLogUser: the message is kept by its type, its text and the numbers
\* it prints, with the number of lines that had been read when it was
\* printed
highsLogUser(m, type, text, numbers) ==
  [m EXCEPT !.log = Append(@, [type |-> type, text |-> text,
                               numbers |-> numbers, line |-> m.pos])]

\* assert(condition): a build with assertions ends the process when the
\* condition fails, a build without them goes on
assertion(m, condition) ==
  IF condition \/ ~m.assertions THEN m ELSE [m EXCEPT !.aborted = TRUE]

\* What a parse function returns: the reader and the key of the next section
Key(m, key) == [m |-> m, key |-> key]

\* What the body of a loop over the lines of a section returns: "kNone" as
\* the key stands for going on with the next line
Step(m, loc, key) == [m |-> m, loc |-> loc, key |-> key]

\* HMpsFF::timeout when the line it follows has been read
timeout(m) == m.deadline # 0 /\ m.pos >= m.deadline

\* getMpsLine sets skip for a blank line and for a comment
skipLine(strline) == strline = <<>> \/ strline[1] = "*"

Keywords ==
  [w \in {"NAME", "OBJSENSE", "ROWS", "COLUMNS", "RHS", "BOUNDS", "RANGES",
          "QSECTION", "QMATRIX", "QUADOBJ", "QCMATRIX", "CSECTION",
          "DELAYEDROWS", "MODELCUTS", "USERCUTS", "INDICATORS", "SETS", "SOS",
          "GENCONS", "PWLOBJ", "PWLNAM", "PWLCON", "ENDATA"} |->
     CASE w = "NAME" -> "kName"
       [] w = "OBJSENSE" -> "kObjsense"
       [] w = "ROWS" -> "kRows"
       [] w = "COLUMNS" -> "kCols"
       [] w = "RHS" -> "kRhs"
       [] w = "BOUNDS" -> "kBounds"
       [] w = "RANGES" -> "kRanges"
       [] w = "QSECTION" -> "kQsection"
       [] w = "QMATRIX" -> "kQmatrix"
       [] w = "QUADOBJ" -> "kQuadobj"
       [] w = "QCMATRIX" -> "kQcmatrix"
       [] w = "CSECTION" -> "kCsection"
       [] w = "DELAYEDROWS" -> "kDelayedrows"
       [] w = "MODELCUTS" -> "kModelcuts"
       [] w = "USERCUTS" -> "kUsercuts"
       [] w = "INDICATORS" -> "kIndicators"
       [] w = "SETS" -> "kSets"
       [] w = "SOS" -> "kSos"
       [] w = "GENCONS" -> "kGencons"
       [] w = "PWLOBJ" -> "kPwlobj"
       [] w = "PWLNAM" -> "kPwlnam"
       [] w = "PWLCON" -> "kPwlcon"
       [] w = "ENDATA" -> "kEnd"]

\* The words whose first three letters in capitals are MAX, and MIN
MaxWords == {"MAX", "MAXIMIZE"}
MinWords == {"MIN", "MINIMIZE"}

TakesArguments == {"kName", "kObjsense", "kQcmatrix", "kQsection", "kCsection"}

\* HMpsFF::checkFirstWord: the key of the line and its first word; the rest
\* of the line is stored for the keywords that have arguments
checkFirstWord(m, strline) ==
  LET word == strline[1]
      upper_word == toupper(word)
      args == IF upper_word \in {"QCMATRIX", "QSECTION", "CSECTION"}
              THEN [m EXCEPT !.section_args = Tail(strline)] ELSE m
  IN IF Len(word) = 1 THEN [m |-> m, key |-> "kNone", word |-> word]
     ELSE IF upper_word \in MaxWords
       THEN [m |-> args, word |-> word,
             key |-> IF Len(strline) = 1 THEN "kMax" ELSE "kNone"]
     ELSE IF upper_word \in MinWords
       THEN [m |-> args, word |-> word,
             key |-> IF Len(strline) = 1 THEN "kMin" ELSE "kNone"]
     ELSE IF upper_word \notin DOMAIN Keywords
       THEN [m |-> args, key |-> "kNone", word |-> word]
     ELSE IF Keywords[upper_word] \in TakesArguments \/ Len(strline) = 1
       THEN [m |-> args, key |-> Keywords[upper_word], word |-> word]
     ELSE [m |-> args, key |-> "kNone", word |-> word]

\* HMpsFF::getColIdx
getColIdx(m, colname, add_if_new) ==
  IF colname \in DOMAIN m.colname2idx
  THEN [m |-> m, colidx |-> m.colname2idx[colname]]
  ELSE IF ~add_if_new THEN [m |-> m, colidx |-> -1]
  ELSE [m |-> [m EXCEPT !.colname2idx = emplace(@, colname, m.num_col),
                        !.num_col = @ + 1,
                        !.col_names = Append(@, colname),
                        !.col_integrality = Append(@, "kContinuous"),
                        !.col_binary = Append(@, FALSE),
                        !.col_lower = Append(@, 0),
                        !.col_upper = Append(@, kHighsInf)],
        colidx |-> m.num_col]
\* HMpsFF::parseDefault reads one line
parseDefault(m) ==
  IF m.pos >= Len(m.file) THEN Key([m EXCEPT !.eof = TRUE], "kFail")
  ELSE Only({
    IF skipLine(strline) THEN Key(m1, "kComment")
    ELSE IF timeout(m1) THEN Key(m1, "kTimeout")
    ELSE Only({
      IF ck.key = "kName"
      THEN Key([ck.m EXCEPT !.mps_name = IF Len(strline) > 1
                                         THEN strline[2] ELSE @], "kNone")
      ELSE IF ck.key = "kObjsense" /\ Len(strline) > 1
      THEN Key([ck.m EXCEPT !.obj_sense =
                  IF toupper(strline[2]) = "MAX" THEN "kMaximize"
                  ELSE IF toupper(strline[2]) = "MIN" THEN "kMinimize"
                  ELSE @], ck.key)
      ELSE Key(ck.m, ck.key)
      : ck \in {checkFirstWord(m1, strline)} })
    : strline \in {m.file[m.pos + 1]}, m1 \in {[m EXCEPT !.pos = @ + 1]} })

\* The body of the loop of HMpsFF::parseObjsense
parseObjsenseLine(m, loc, strline) ==
  Only({
    IF ck.key = "kMax" THEN Step([ck.m EXCEPT !.obj_sense = "kMaximize"], loc, "kNone")
    ELSE IF ck.key = "kMin"
    THEN Step([ck.m EXCEPT !.obj_sense = "kMinimize"], loc, "kNone")
    ELSE Step(ck.m, loc, ck.key)
    : ck \in {checkFirstWord(m, strline)} })

\* The words of a line of ROWS that follow the character of the row type
afterRowType(strline) ==
  IF Len(strline[1]) = 1 THEN Tail(strline)
  ELSE <<restOfWord(strline[1])>> \o Tail(strline)

\* The row that a line of ROWS adds when its name is the only text after the
\* type: lines 672-701
addRowName(m, loc, rowname, isobj, isFreeRow) ==
  IF isFreeRow
  THEN Step([m EXCEPT !.rowname2idx = emplace(@, rowname, -2)], loc, "kNone")
  ELSE
    LET inserted == rowname \notin DOMAIN m.rowname2idx
        num_row == IF isobj THEN m.num_row ELSE m.num_row + 1
        first == ~inserted /\ ~m.has_duplicate_row_name_
    IN Step([m EXCEPT
               !.rowname2idx = emplace(@, rowname,
                                       IF isobj THEN -1 ELSE m.num_row),
               !.num_row = num_row,
               !.row_names = IF isobj THEN @ ELSE Append(@, rowname),
               !.objective_name = IF isobj THEN rowname ELSE @,
               !.has_duplicate_row_name_ = @ \/ ~inserted,
               !.duplicate_row_name_ = IF first THEN rowname ELSE @,
               !.duplicate_row_name_index0_ =
                 IF first THEN m.rowname2idx[rowname] ELSE @,
               !.duplicate_row_name_index1_ =
                 IF first THEN num_row - 1 ELSE @],
            loc, "kNone")
\* A test that takes every name with spaces for a name of fixed format
fixedFormatKeyOfAnySize(name) == "kFixedFormat"

\* The key for a row name that is followed by more text: name is the text
\* after the row type, as words (lines 661-669)
fixedFormatKey(name) == IF TextSize(name) > 8 THEN "kFail" ELSE "kFixedFormat"

\* The body of the loop of HMpsFF::parseRows, lines 609-701
parseRowsLine(m, loc, strline) ==
  Only({
    IF ck.key # "kNone"
    THEN Step(IF loc.hasobj THEN ck.m
              ELSE [highsLogUser(ck.m, "kWarning", "No objective row found", <<>>)
                      EXCEPT !.warning_issued_ = TRUE,
                             !.rowname2idx =
                               emplace(@, "artificial_empty_objective", -1)],
              loc, ck.key)
    ELSE IF type \notin {"G", "E", "L", "N"}
    THEN Step(highsLogUser(ck.m, "kError", "Entry in ROWS is unidentified", <<>>),
              loc, "kFail")
    ELSE Only({
      IF Len(name) > 1
      THEN Step(m1, loc1, fixedFormatKey(name))
      ELSE addRowName(m1, loc1, WordAt(name, 1),
                      type = "N" /\ ~loc.hasobj, type = "N" /\ loc.hasobj)
      : name \in {afterRowType(strline)},
        loc1 \in {[loc EXCEPT !.hasobj = @ \/ type = "N"]},
        m1 \in {[ck.m EXCEPT
                   !.row_lower = IF type = "N" THEN @
                                 ELSE Append(@, IF type = "L" THEN -kHighsInf ELSE 0),
                   !.row_upper = IF type = "N" THEN @
                                 ELSE Append(@, IF type = "G" THEN kHighsInf ELSE 0),
                   !.row_type = IF type = "N" THEN @
                                ELSE Append(@, IF type = "G" THEN "kGe"
                                               ELSE IF type = "E" THEN "kEq"
                                               ELSE "kLe"),
                   !.cost_row_location =
                     IF type = "N" /\ ~loc.hasobj THEN ck.m.num_row ELSE @]} })
    : ck \in {checkFirstWord(m, strline)}, type \in {firstChar(strline[1])} })
\* A counter of ignored entries and the frequency of its reports
NoneIgnored == [num |-> 0, frequency |-> 1]

\* A counter whose reports come at every count that is a multiple of a
\* frequency that grows by one
ignoredEntryByOne(m, loc, counter, text) ==
  Only({
    [m |-> IF report THEN highsLogUser(m, "kWarning", text, <<>>) ELSE m,
     loc |-> [loc EXCEPT ![counter] =
                [num |-> n, frequency |-> IF report THEN @.frequency + 1
                                          ELSE @.frequency]]]
    : n \in {loc[counter].num + 1},
      report \in {(loc[counter].num + 1) % loc[counter].frequency = 0} })

\* One more ignored entry: it is reported when the count is a multiple of
\* the frequency, and the frequency then doubles (lines 904-911)
ignoredEntry(m, loc, counter, text) ==
  Only({
    [m |-> IF report THEN highsLogUser(m, "kWarning", text, <<>>) ELSE m,
     loc |-> [loc EXCEPT ![counter] =
                [num |-> n, frequency |-> IF report THEN 2 * @.frequency
                                          ELSE @.frequency]]]
    : n \in {loc[counter].num + 1},
      report \in {(loc[counter].num + 1) % loc[counter].frequency = 0} })

\* The nonzeros of the column that has been read go to coeffobj and entries
\* (lines 757-770 and 845-858)
flushColumn(m, loc) ==
  IF m.num_col = 0 THEN [m |-> m, loc |-> loc]
  ELSE [m |-> [m EXCEPT
                 !.coeffobj = IF loc.col_cost # 0
                              THEN Append(@, <<m.num_col - 1, loc.col_cost>>)
                              ELSE @,
                 !.entries = @ \o [iEl \in 1..Len(loc.col_index) |->
                                     <<m.num_col - 1, loc.col_index[iEl],
                                       loc.col_value[loc.col_index[iEl] + 1]>>]],
        loc |-> [loc EXCEPT !.col_cost = 0, !.col_index = <<>>,
                            !.col_value = Const(Len(@), 0)]]

\* A row name and its coefficient on a line of COLUMNS (lines 902-958 for
\* the first pair of the line, 980-1036 for the second)
colsEntry(m, loc, marker, word) ==
  IF marker \notin DOMAIN m.rowname2idx
  THEN ignoredEntry(m, loc, "row_name",
                    "Row name in COLUMNS section is not defined: ignored")
  ELSE Only({
    IF value = 0 THEN [m |-> m, loc |-> loc]
    ELSE IF rowidx >= 0
    THEN IF loc.col_value[rowidx + 1] # 0
         THEN ignoredEntry(m, loc, "matrix_nz",
                           "Column has duplicate nonzero in row: ignored")
         ELSE [m |-> [m EXCEPT !.num_nz = @ + 1],
               loc |-> [loc EXCEPT !.col_value[rowidx + 1] = value,
                                   !.col_index = Append(@, rowidx)]]
    ELSE IF rowidx = -1
    THEN IF loc.col_cost # 0
         THEN ignoredEntry(m, loc, "cost_nz",
                           "Column has duplicate nonzero in objective row: ignored")
         ELSE [m |-> m, loc |-> [loc EXCEPT !.col_cost = value]]
    ELSE [m |-> assertion(m, rowidx = -2), loc |-> loc]
    : value \in {getValue(word)}, rowidx \in {m.rowname2idx[marker]} })

kintegerVarsInColumnsAreBinary == TRUE

\* The column that begins on a line of COLUMNS (lines 859-885)
newColumn(m, loc, word) ==
  LET inserted == word \notin DOMAIN m.colname2idx
      first == ~inserted /\ ~m.has_duplicate_col_name_
  IN [m |-> [m EXCEPT
               !.colname2idx = emplace(@, word, m.num_col),
               !.num_col = @ + 1,
               !.col_names = Append(@, word),
               !.has_duplicate_col_name_ = @ \/ ~inserted,
               !.duplicate_col_name_ = IF first THEN word ELSE @,
               !.duplicate_col_name_index0_ =
                 IF first THEN m.colname2idx[word] ELSE @,
               !.duplicate_col_name_index1_ = IF first THEN m.num_col ELSE @,
               !.col_integrality =
                 Append(@, IF loc.integral_cols THEN "kInteger"
                           ELSE "kContinuous"),
               !.col_binary = Append(@, loc.integral_cols
                                        /\ kintegerVarsInColumnsAreBinary),
               !.col_lower = Append(@, 0),
               !.col_upper = Append(@, kHighsInf)],
      loc |-> [loc EXCEPT !.colname = word]]

\* The end of the COLUMNS section (lines 756-785)
endOfColumns(m, loc, key) ==
  Only({
    Step(IF warning
         THEN highsLogUser([f.m EXCEPT !.warning_issued_ = TRUE], "kWarning",
                           "COLUMNS section: ignored",
                           <<loc.row_name.num, loc.cost_nz.num,
                             loc.matrix_nz.num>>)
         ELSE [f.m EXCEPT !.warning_issued_ = FALSE],
         f.loc, key)
    : f \in {flushColumn(m, loc)},
      warning \in {loc.row_name.num > 0 \/ loc.cost_nz.num > 0
                   \/ loc.matrix_nz.num > 0} })

\* The coefficients of a line of COLUMNS (lines 888-1037)
colsCoefficients(m, loc, strline) ==
  IF WordAt(strline, 3) = ""
  THEN Step(highsLogUser(m, "kError", "No coefficient given for column", <<>>),
            loc, "kFail")
  ELSE Only({
    IF Len(strline) <= 3 THEN Step(e1.m, e1.loc, "kNone")
    ELSE Only({
      Step(assertion(e2.m, Len(strline) <= 5), e2.loc, "kNone")
      : e2 \in {colsEntry(e1.m, e1.loc, WordAt(strline, 4),
                          WordAt(strline, 5))} })
    : e1 \in {colsEntry(m, loc, WordAt(strline, 2), WordAt(strline, 3))} })
\* A test of the marker that takes INTORG and INTEND in any order
markerErrorInAnyOrder(integral_cols, marker) ==
  marker \notin {"'INTEND'", "'INTORG'"}

\* The test of the word after 'MARKER', lines 794-795
markerError(integral_cols, marker) ==
  \/ integral_cols /\ marker # "'INTEND'"
  \/ ~integral_cols /\ marker # "'INTORG'"

\* The body of the loop of HMpsFF::parseCols, lines 753-1037
parseColsLine(m, loc, strline) ==
  Only({
    IF ck.key # "kNone" THEN endOfColumns(ck.m, loc, ck.key)
    ELSE IF marker = "'MARKER'"
    THEN IF markerError(loc.integral_cols, WordAt(strline, 3))
         THEN Step(highsLogUser(ck.m, "kError",
                                "Integrality marker error in COLUMNS section",
                                <<>>), loc, "kFail")
         ELSE Step(ck.m, [loc EXCEPT !.integral_cols = ~@], "kNone")
    ELSE IF EndOf(strline, 2) < 9 /\ marker \notin DOMAIN ck.m.rowname2idx
    THEN IF PrefixSize(strline, 10) > 8
         THEN Step(highsLogUser(ck.m, "kError",
                                "Row name with spaces exceeds fixed format name length of 8",
                                <<>>), loc, "kFail")
         ELSE Step(highsLogUser([ck.m EXCEPT !.warning_issued_ = TRUE],
                                "kWarning",
                                "Row name with spaces, so assume fixed format",
                                <<PrefixSize(strline, 10)>>),
                   loc, "kFixedFormat")
    ELSE IF ck.word # loc.colname
    THEN Only({
           Only({ colsCoefficients(c.m, c.loc, strline)
                  : c \in {newColumn(f.m, f.loc, ck.word)} })
           : f \in {flushColumn(ck.m, loc)} })
    ELSE colsCoefficients(ck.m, loc, strline)
    : ck \in {checkFirstWord(m, strline)}, marker \in {WordAt(strline, 2)} })
\* addRhs of HMpsFF::parseRhs, lines 1064-1083
addRhs(m, val, rowidx) ==
  IF rowidx > -1
  THEN [m EXCEPT
          !.row_upper[rowidx + 1] =
            IF m.row_type[rowidx + 1] \in {"kEq", "kLe"} THEN val ELSE @,
          !.row_lower[rowidx + 1] =
            IF m.row_type[rowidx + 1] \in {"kEq", "kGe"} THEN val ELSE @,
          !.has_row_entry_[rowidx + 1] = TRUE]
  ELSE [assertion(m, rowidx = -1) EXCEPT !.obj_offset = -val,
                                         !.has_obj_entry_ = TRUE]

\* A row name and its value on a line of RHS: parseName (1047-1062) tells
\* whether the row has had its value, lines 1173-1196 and 1231-1252
rhsEntry(m, loc, marker, word) ==
  IF marker \notin DOMAIN m.rowname2idx
  THEN ignoredEntry(m, loc, "row_name",
                    "Row name in RHS section is not defined: ignored")
  ELSE Only({
    IF named.aborted THEN [m |-> named, loc |-> loc]
    ELSE IF has_entry
    THEN ignoredEntry(named, loc, "duplicate",
                      "Row name in RHS section has duplicate value: ignored")
    ELSE [m |-> addRhs(named, getValue(word), rowidx), loc |-> loc]
    : rowidx \in {m.rowname2idx[marker]},
      named \in {assertion(m, m.rowname2idx[marker] >= -1)},
      has_entry \in {IF m.rowname2idx[marker] > -1
                     THEN m.has_row_entry_[m.rowname2idx[marker] + 1]
                     ELSE m.has_obj_entry_} })

\* The end of the RHS or of the RANGES section (lines 1105-1116, 1582-1594)
endOfValues(m, loc, key, text) ==
  Step(IF loc.row_name.num > 0 \/ loc.duplicate.num > 0
       THEN highsLogUser([m EXCEPT !.warning_issued_ = TRUE], "kWarning", text,
                         <<loc.row_name.num, loc.duplicate.num>>)
       ELSE [m EXCEPT !.warning_issued_ = FALSE],
       loc, key)

\* The entries of a line of RHS whose first row name is its word number k
rhsEntries(m, loc, strline, k) ==
  Only({
    IF e1.m.aborted \/ Len(strline) <= k + 1 THEN Step(e1.m, e1.loc, "kNone")
    ELSE Only({
      Step(e2.m, e2.loc, "kNone")
      : e2 \in {rhsEntry(assertion(e1.m, Len(strline) <= k + 3), e1.loc,
                         WordAt(strline, k + 2), WordAt(strline, k + 3))} })
    : e1 \in {rhsEntry(m, loc, WordAt(strline, k), WordAt(strline, k + 1))} })

\* The body of the loop of HMpsFF::parseRhs, lines 1099-1253
parseRhsLine(m, loc, strline) ==
  Only({
    IF ck.key \notin {"kNone", "kRhs"}
    THEN endOfValues(ck.m, loc, ck.key, "RHS section: ignored")
    ELSE IF WordAt(strline, k + 1) = ""
    THEN Step(highsLogUser(ck.m, "kError", "No bound given for row", <<>>),
              loc, "kFail")
    ELSE IF WordAt(strline, k) \notin DOMAIN ck.m.rowname2idx
            /\ WordAt(strline, k) = ck.m.mps_name
    THEN IF WordAt(strline, k + 2) = ""
         THEN Step(highsLogUser(ck.m, "kError", "No bound given for SIF row",
                                <<>>), loc, "kFail")
         ELSE rhsEntries(ck.m, loc, strline, k + 1)
    ELSE rhsEntries(ck.m, loc, strline, k)
    : ck \in {checkFirstWord(m, strline)},
      k \in {IF checkFirstWord(m, strline).key = "kNone"
                /\ strline[1] \in DOMAIN m.rowname2idx THEN 1 ELSE 2} })

\* addRhs of HMpsFF::parseRanges, lines 1553-1564
addRange(m, val, rowidx) ==
  IF (m.row_type[rowidx + 1] = "kEq" /\ val < 0) \/ m.row_type[rowidx + 1] = "kLe"
  THEN [assertion(m, m.row_upper[rowidx + 1] < kHighsInf) EXCEPT
          !.row_lower[rowidx + 1] = m.row_upper[rowidx + 1] - Abs(val),
          !.has_row_entry_[rowidx + 1] = TRUE]
  ELSE IF (m.row_type[rowidx + 1] = "kEq" /\ val > 0)
          \/ m.row_type[rowidx + 1] = "kGe"
  THEN [assertion(m, m.row_lower[rowidx + 1] > -kHighsInf) EXCEPT
          !.row_upper[rowidx + 1] = m.row_lower[rowidx + 1] + Abs(val),
          !.has_row_entry_[rowidx + 1] = TRUE]
  ELSE [m EXCEPT !.has_row_entry_[rowidx + 1] = TRUE]

\* A row name and its range on a line of RANGES, lines 1613-1657
rangesEntry(m, loc, marker, word) ==
  IF marker \notin DOMAIN m.rowname2idx
  THEN ignoredEntry(m, loc, "row_name",
                    "Row name in RANGES section is not defined: ignored")
  ELSE IF m.rowname2idx[marker] < 0
  THEN ignoredEntry(m, loc, "row_name",
                    "Row name in RANGES section is not valid: ignored")
  ELSE IF m.has_row_entry_[m.rowname2idx[marker] + 1]
  THEN ignoredEntry(m, loc, "duplicate",
                    "Row name in RANGES section has duplicate value: ignored")
  ELSE [m |-> addRange(m, getValue(word), m.rowname2idx[marker]), loc |-> loc]

\* The body of the loop of HMpsFF::parseRanges, lines 1578-1728
parseRangesLine(m, loc, strline) ==
  Only({
    IF ck.key # "kNone"
    THEN endOfValues(ck.m, loc, ck.key, "RANGES section: ignored")
    ELSE IF WordAt(strline, 3) = ""
    THEN Step(highsLogUser(ck.m, "kError", "No range given for row", <<>>),
              loc, "kFail")
    ELSE Only({
      IF Len(strline) <= 3 THEN Step(e1.m, e1.loc, "kNone")
      ELSE IF WordAt(strline, 5) = ""
      THEN Step(highsLogUser(e1.m, "kError", "No range given for row", <<>>),
                e1.loc, "kFail")
      ELSE Only({
        IF Len(strline) > 5
        THEN Step(highsLogUser(e2.m, "kError",
                               "Unknown specifiers in RANGES section for row",
                               <<>>), e2.loc, "kFail")
        ELSE Step(e2.m, e2.loc, "kNone")
        : e2 \in {rangesEntry(e1.m, e1.loc, WordAt(strline, 4),
                              WordAt(strline, 5))} })
      : e1 \in {rangesEntry(ck.m, loc, WordAt(strline, 2), WordAt(strline, 3))} })
    : ck \in {checkFirstWord(m, strline)} })
\* What the types of the BOUNDS section stand for (lines 1339-1402)
BoundTypes ==
  [w \in {"UP", "LO", "FX", "MI", "PL", "BV", "LI", "UI", "FR", "SI", "SC"} |->
     [is_lb |-> w \in {"LO", "FX", "MI", "BV", "LI", "FR"},
      is_ub |-> w \in {"UP", "FX", "PL", "BV", "UI", "FR", "SI", "SC"},
      is_integral |-> w \in {"BV", "LI", "UI", "SI"},
      is_semi |-> w \in {"SI", "SC"},
      is_defaultbound |-> w \in {"MI", "PL", "BV", "FR"}]]

\* The bound that a line of BOUNDS gives the column colidx, lines 1431-1535;
\* k is the number of the word of the line that names the column
boundOfColumn(m, loc, strline, t, colidx, k) ==
  IF (t.is_lb /\ loc.has_lower[colidx + 1]) \/ (t.is_ub /\ loc.has_upper[colidx + 1])
  THEN Only({ Step(i.m, i.loc, "kNone")
              : i \in {ignoredEntry(m, loc, "duplicate",
                         "Column name in BOUNDS section has duplicate bound definition: ignored")} })
  ELSE Only({
    IF t.is_defaultbound
    THEN IF t.is_integral
         THEN Step([assertion(m, m.col_lower[colidx + 1] = 0) EXCEPT
                      !.col_integrality[colidx + 1] = "kInteger",
                      !.col_binary[colidx + 1] = TRUE,
                      !.col_upper[colidx + 1] = One], had, "kNone")
         ELSE Step([m EXCEPT
                      !.col_binary[colidx + 1] = FALSE,
                      !.col_lower[colidx + 1] = IF t.is_lb THEN -kHighsInf ELSE @,
                      !.col_upper[colidx + 1] = IF t.is_ub THEN kHighsInf ELSE @],
                   had, "kNone")
    ELSE IF WordAt(strline, k + 1) = ""
    THEN Step(highsLogUser(m, "kError", "No bound given for row", <<>>), loc,
              "kFail")
    ELSE Only({
      Step([f.m EXCEPT
              !.col_integrality[colidx + 1] =
                IF t.is_integral
                THEN IF t.is_semi THEN "kSemiInteger" ELSE "kInteger"
                ELSE IF t.is_semi THEN "kSemiContinuous" ELSE @,
              !.col_lower[colidx + 1] = IF t.is_lb THEN value ELSE @,
              !.col_upper[colidx + 1] = IF t.is_ub THEN value ELSE @,
              !.col_binary[colidx + 1] = FALSE],
           [f.loc EXCEPT !.has_lower = had.has_lower,
                         !.has_upper = had.has_upper], "kNone")
      : value \in {getValue(WordAt(strline, k + 1))},
        f \in {IF t.is_integral /\ getValue(WordAt(strline, k + 1)) % One # 0
               THEN ignoredEntry(m, loc, "fractional",
                                 "Bound for LI/UI/SI column is not integer")
               ELSE [m |-> m, loc |-> loc]} })
    : had \in {[loc EXCEPT !.has_lower[colidx + 1] = @ \/ t.is_lb,
                           !.has_upper[colidx + 1] = @ \/ t.is_ub]} })

\* The body of the loop of HMpsFF::parseBounds, lines 1285-1535
parseBoundsLine(m, loc, strline) ==
  Only({
    IF ck.key # "kNone"
    THEN Step(IF loc.duplicate.num > 0 \/ loc.fractional.num > 0
              THEN highsLogUser([ck.m EXCEPT !.warning_issued_ = TRUE],
                                "kWarning", "BOUNDS section: ignored",
                                <<loc.duplicate.num, loc.fractional.num>>)
              ELSE [ck.m EXCEPT !.warning_issued_ = FALSE],
              loc, ck.key)
    ELSE IF ck.word \notin DOMAIN BoundTypes
    THEN Step(highsLogUser(ck.m, "kError",
                           "Entry in BOUNDS section of MPS file is of type",
                           <<>>), loc, "kFail")
    ELSE Only({
      Only({
        boundOfColumn(c.m,
                      IF c.colidx >= ck.m.num_col
                      THEN [loc EXCEPT !.has_lower = Append(@, FALSE),
                                       !.has_upper = Append(@, FALSE)]
                      ELSE loc,
                      strline, BoundTypes[ck.word], c.colidx, k)
        : c \in {getColIdx(ck.m, WordAt(strline, k), TRUE)} })
      : k \in {IF WordAt(strline, 2) \in DOMAIN ck.m.colname2idx
               THEN 2 ELSE 3} })
    : ck \in {checkFirstWord(m, strline)} })

\* The entries of a line of a section of quadratic coefficients (lines
\* 1770-1827 and 1915-1968): the column named by the first word, then up to
\* two pairs of a column name and a coefficient. whole tells whether the
\* section gives the whole matrix, of which the lower triangle is kept
RECURSIVE quadraticEntries(_, _, _, _, _, _)
quadraticEntries(m, strline, colidx, k, whole, found) ==
  IF k > 4 \/ WordAt(strline, k) = "" THEN [m |-> m, found |-> found, key |-> "kNone"]
  ELSE IF WordAt(strline, k + 1) = ""
  THEN [m |-> highsLogUser(m, "kError", "no coefficient for entry in column", <<>>),
        found |-> found, key |-> "kFail"]
  ELSE Only({
    quadraticEntries(r.m, strline, colidx, k + 2, whole,
                     IF coeff # 0 /\ (~whole \/ r.colidx >= colidx)
                     THEN Append(found, <<r.colidx, colidx, coeff>>)
                     ELSE found)
    : r \in {getColIdx(m, WordAt(strline, k), TRUE)},
      coeff \in {getValue(WordAt(strline, k + 1))} })

\* The body of the loop of HMpsFF::parseHessian, lines 1759-1827
parseHessianLine(m, loc, strline) ==
  Only({
    IF ck.key # "kNone" THEN Step(ck.m, loc, ck.key)
    ELSE Only({
      Only({ Step([q.m EXCEPT !.q_entries = @ \o q.found], loc, q.key)
             : q \in {quadraticEntries(c.m, strline, c.colidx, 2, loc.whole,
                                       <<>>)} })
      : c \in {getColIdx(ck.m, ck.word, TRUE)} })
    : ck \in {checkFirstWord(m, strline)} })

\* The body of the loops of HMpsFF::parseQuadRows: lines 1877-1886 when the
\* row of the section is not defined or free, lines 1904-1968 otherwise
parseQuadRowsLine(m, loc, strline) ==
  Only({
    IF ck.key # "kNone" THEN Step(ck.m, loc, ck.key)
    ELSE IF loc.ignored THEN Step(ck.m, loc, "kNone")
    ELSE Only({
      Only({ Step(IF loc.rowidx = -1
                  THEN [q.m EXCEPT !.q_entries = @ \o q.found]
                  ELSE [q.m EXCEPT !.qrows_entries[loc.rowidx + 1] = @ \o q.found],
                  loc, q.key)
             : q \in {quadraticEntries(c.m, strline, c.colidx, 2, loc.whole,
                                       <<>>)} })
      : c \in {getColIdx(ck.m, ck.word, TRUE)} })
    : ck \in {checkFirstWord(m, strline)} })

\* The body of the loop of HMpsFF::parseCones, lines 2046-2061
parseConesLine(m, loc, strline) ==
  Only({
    IF ck.key # "kNone" THEN Step(ck.m, loc, ck.key)
    ELSE Only({
      Step([c.m EXCEPT !.cone_entries[Len(c.m.cone_entries)] = Append(@, c.colidx)], loc,
           "kNone")
      : c \in {getColIdx(ck.m, ck.word, TRUE)} })
    : ck \in {checkFirstWord(m, strline)} })

\* The body of the loop of HMpsFF::parseSos, lines 2077-2159
parseSosLine(m, loc, strline) ==
  Only({
    IF ck.key # "kNone" THEN Step(ck.m, loc, ck.key)
    ELSE IF ck.word \in {"S1", "S2"}
    THEN IF WordAt(strline, 2) = ""
         THEN Step(highsLogUser(ck.m, "kError", "No name given for SOS", <<>>),
                   loc, "kFail")
         ELSE Step([ck.m EXCEPT !.sos_name = Append(@, strline[2]),
                                !.sos_entries = Append(@, <<>>)], loc, "kNone")
    ELSE IF ck.m.sos_entries = <<>>
    THEN Step(highsLogUser(ck.m, "kError", "SOS type specification missing",
                           <<>>), loc, "kFail")
    ELSE IF loc.keyword # "kSos" /\ ck.word # ck.m.sos_name[Len(ck.m.sos_name)]
    THEN Step(highsLogUser(ck.m, "kError",
                           "SOS specification mixed with another SOS", <<>>),
              loc, "kFail")
    ELSE IF loc.keyword # "kSos" /\ Len(strline) = 1
    THEN Step(highsLogUser(ck.m, "kError",
                           "Missing variable in SOS specification line", <<>>),
              loc, "kFail")
    ELSE Only({
      Only({
        Step([c.m EXCEPT !.sos_entries[Len(c.m.sos_entries)] =
                Append(@, <<c.colidx, getValue(WordAt(strline, k + 1))>>)],
             loc, "kNone")
        : c \in {getColIdx(ck.m, WordAt(strline, k), TRUE)} })
      : k \in {IF loc.keyword = "kSos" THEN 1 ELSE 2} })
    : ck \in {checkFirstWord(m, strline)} })
\* The body of the loop over the lines of a section
lineOf(section, m, loc, strline) ==
  CASE section = "kObjsense" -> parseObjsenseLine(m, loc, strline)
    [] section = "kRows" -> parseRowsLine(m, loc, strline)
    [] section = "kCols" -> parseColsLine(m, loc, strline)
    [] section = "kRhs" -> parseRhsLine(m, loc, strline)
    [] section = "kBounds" -> parseBoundsLine(m, loc, strline)
    [] section = "kRanges" -> parseRangesLine(m, loc, strline)
    [] section = "kHessian" -> parseHessianLine(m, loc, strline)
    [] section = "kQuadRows" -> parseQuadRowsLine(m, loc, strline)
    [] section = "kCones" -> parseConesLine(m, loc, strline)
    [] section = "kSos" -> parseSosLine(m, loc, strline)

\* What a parse function does when getMpsLine finds no line: parseRows takes
\* the lines 704-711, the others return kFail
endOfFile(section, m) ==
  IF section = "kRows"
  THEN Key([assertion(highsLogUser(m, "kError",
                                   "Anomalous exit when parsing BOUNDS section of MPS file",
                                   <<>>), FALSE)
              EXCEPT !.num_row = Len(m.row_lower), !.eof = TRUE], "kFail")
  ELSE Key([m EXCEPT !.eof = TRUE], "kFail")

\* while (getMpsLine(file, strline, skip)) of a parse function: a line that
\* is skipped is passed over, the time limit is looked at after every other
\* line, and the body decides whether the loop goes on
RECURSIVE sectionLoop(_, _, _)
sectionLoop(section, m, loc) ==
  IF m.pos >= Len(m.file) THEN endOfFile(section, m)
  ELSE Only({
    IF skipLine(strline) THEN sectionLoop(section, m1, loc)
    ELSE IF timeout(m1) THEN Key(m1, "kTimeout")
    ELSE Only({
      IF r.m.aborted THEN Key(r.m, "kFail")
      ELSE IF r.key = "kNone" THEN sectionLoop(section, r.m, r.loc)
      ELSE Key(r.m, r.key)
      : r \in {lineOf(section, m1, loc, strline)} })
    : strline \in {m.file[m.pos + 1]}, m1 \in {[m EXCEPT !.pos = @ + 1]} })

\* HMpsFF::parseObjsense
parseObjsense(m) == sectionLoop("kObjsense", m, <<>>)

\* HMpsFF::parseRows
parseRows(m) ==
  Only({
    IF m0.aborted THEN Key(m0, "kFail")
    ELSE sectionLoop("kRows", m0, [hasobj |-> FALSE])
    : m0 \in {[assertion(m, m.num_row = 0 /\ m.row_lower = <<>>
                            /\ m.row_upper = <<>>)
                 EXCEPT !.objective_name = "Objective"]} })

\* HMpsFF::parseCols
parseCols(m) ==
  Only({
    IF m0.aborted THEN Key(m0, "kFail")
    ELSE sectionLoop("kCols", m0,
                     [colname |-> "", integral_cols |-> FALSE,
                      col_value |-> Const(m.num_row, 0), col_index |-> <<>>,
                      col_cost |-> 0, row_name |-> NoneIgnored,
                      cost_nz |-> NoneIgnored, matrix_nz |-> NoneIgnored])
    : m0 \in {assertion(m, m.num_col = 0)} })

\* HMpsFF::parseRhs
parseRhs(m) ==
  sectionLoop("kRhs",
              [m EXCEPT !.has_row_entry_ = Const(m.num_row, FALSE),
                        !.has_obj_entry_ = FALSE],
              [row_name |-> NoneIgnored, duplicate |-> NoneIgnored])

\* HMpsFF::parseBounds
parseBounds(m) ==
  sectionLoop("kBounds", m,
              [has_lower |-> Const(m.num_col, FALSE),
               has_upper |-> Const(m.num_col, FALSE),
               duplicate |-> NoneIgnored, fractional |-> NoneIgnored])

\* HMpsFF::parseRanges
parseRanges(m) ==
  sectionLoop("kRanges",
              [m EXCEPT !.has_row_entry_ = Const(m.num_row, FALSE)],
              [row_name |-> NoneIgnored, duplicate |-> NoneIgnored])

\* HMpsFF::parseHessian
parseHessian(m, keyword) ==
  sectionLoop("kHessian", m, [whole |-> keyword = "kQmatrix"])

\* HMpsFF::parseQuadRows
parseQuadRows(m, keyword) ==
  LET rowname == WordAt(m.section_args, 1)
      defined == rowname \in DOMAIN m.rowname2idx
      rowidx == m.rowname2idx[rowname]
  IN IF rowname = ""
     THEN Key(highsLogUser(m, "kError", "No row name given in argument of section",
                           <<>>), "kFail")
     ELSE IF ~defined
     THEN sectionLoop("kQuadRows",
                      highsLogUser([m EXCEPT !.warning_issued_ = TRUE],
                                   "kWarning",
                                   "Row name in section is not defined: ignored",
                                   <<>>),
                      [ignored |-> TRUE])
     ELSE IF rowidx = -2 THEN sectionLoop("kQuadRows", m, [ignored |-> TRUE])
     ELSE sectionLoop("kQuadRows",
                      IF rowidx >= 0
                      THEN [m EXCEPT !.qrows_entries = Resize(@, m.num_row, <<>>)]
                      ELSE m,
                      [ignored |-> FALSE, rowidx |-> rowidx,
                       whole |-> keyword = "kQcmatrix"])

ConeTypes == {"ZERO", "QUAD", "RQUAD", "PEXP", "PPOW", "DEXP", "DPOW"}

\* HMpsFF::parseCones
parseCones(m) ==
  LET conename == WordAt(m.section_args, 1)
      conetypestr == IF WordAt(m.section_args, 3) = ""
                     THEN WordAt(m.section_args, 2)
                     ELSE WordAt(m.section_args, 3)
  IN IF conename = ""
     THEN Key(highsLogUser(m, "kError", "Cone name missing in CSECTION", <<>>),
              "kFail")
     ELSE IF conetypestr = ""
     THEN Key(highsLogUser(m, "kError", "Cone type missing in CSECTION", <<>>),
              "kFail")
     ELSE IF conetypestr \notin ConeTypes
     THEN Key(highsLogUser(m, "kError", "Unrecognized cone type", <<>>), "kFail")
     ELSE sectionLoop("kCones", [m EXCEPT !.cone_entries = Append(@, <<>>)],
                      <<>>)

\* HMpsFF::parseSos
parseSos(m, keyword) == sectionLoop("kSos", m, [keyword |-> keyword])

Unparsed ==
  {"kDelayedrows", "kModelcuts", "kUsercuts", "kIndicators", "kGencons",
   "kPwlobj", "kPwlnam", "kPwlcon"}

\* HMpsFF::cannotParseSection
cannotParseSection(keyword) == keyword \in Unparsed

\* The section that the switch of HMpsFF::parse reads for a keyword
parseSection(m, keyword) ==
  CASE keyword = "kObjsense" -> parseObjsense(m)
    [] keyword = "kRows" -> parseRows(m)
    [] keyword = "kCols" -> parseCols(m)
    [] keyword = "kRhs" -> parseRhs(m)
    [] keyword = "kBounds" -> parseBounds(m)
    [] keyword = "kRanges" -> parseRanges(m)
    [] keyword \in {"kQmatrix", "kQuadobj"} -> parseHessian(m, keyword)
    [] keyword \in {"kQsection", "kQcmatrix"} -> parseQuadRows(m, keyword)
    [] keyword = "kCsection" -> parseCones(m)
    [] keyword \in {"kSets", "kSos"} -> parseSos(m, keyword)
    [] OTHER -> parseDefault(m)

\* What a call of the reader returns: the reader and the return code,
\* "abort" when an assertion has ended the process
Code(m, code) == [m |-> m, code |-> code]

\* The columns that are still binary by default get the bounds 0 and 1
\* (lines 326-332)
binaryBounds(m) ==
  [m EXCEPT
     !.col_lower = [i \in 1..Len(@) |-> IF m.col_binary[i] THEN 0 ELSE @[i]],
     !.col_upper = [i \in 1..Len(@) |-> IF m.col_binary[i] THEN One ELSE @[i]]]

\* The parsing loop of HMpsFF::parse and what follows it, lines 273-352
RECURSIVE parsingLoop(_, _)
parsingLoop(m, keyword) ==
  IF keyword = "kFail" THEN Code(binaryBounds(m), "kParserError")
  ELSE IF keyword = "kTimeout" THEN Code(binaryBounds(m), "kTimeout")
  ELSE IF keyword = "kEnd"
  THEN Only({ Code(m1, IF m1.aborted THEN "abort" ELSE "kSuccess")
              : m1 \in {assertion(binaryBounds(m),
                                  Len(m.col_lower) = m.num_col
                                  /\ Len(m.row_lower) = m.num_row)} })
  ELSE IF cannotParseSection(keyword)
  THEN Code(highsLogUser(m, "kError", "MPS file reader cannot parse section",
                         <<>>), "kParserError")
  ELSE IF keyword = "kFixedFormat" THEN Code(m, "kFixedFormat")
  ELSE Only({
    IF r.m.aborted THEN Code(r.m, "abort")
    ELSE parsingLoop([r.m EXCEPT !.keys = Append(@, r.key)], r.key)
    : r \in {parseSection(m, keyword)} })

\* HMpsFF::parse
parse(m) ==
  IF ~m.is_open THEN Code(m, "kFileNotFound")
  ELSE parsingLoop([m EXCEPT !.num_row = 0, !.num_col = 0, !.num_nz = 0,
                             !.cost_row_location = -1,
                             !.has_duplicate_row_name_ = FALSE,
                             !.has_duplicate_col_name_ = FALSE], "kNone")

\* The loop of HMpsFF::fillMatrix that sets the start of each column, lines
\* 147-161: the start so far, the column of the last entry and the status
RECURSIVE fillStarts(_, _, _, _)
fillStarts(m, k, newColIndex, a_start) ==
  IF k >= m.num_nz
  THEN [status |-> 0, newColIndex |-> newColIndex, a_start |-> a_start]
  ELSE IF m.entries[k + 1][1] = newColIndex
  THEN fillStarts(m, k + 1, newColIndex, a_start)
  ELSE IF m.entries[k + 1][1] >= m.num_col
  THEN [status |-> 1, newColIndex |-> newColIndex, a_start |-> a_start]
  ELSE fillStarts(m, k + 1, m.entries[k + 1][1],
                  [i \in 1..Len(a_start) |->
                     IF \/ i - 1 = m.entries[k + 1][1]
                        \/ i - 1 < m.entries[k + 1][1] /\ i - 1 > newColIndex
                     THEN k ELSE a_start[i]])

\* HMpsFF::fillMatrix, were the starts after the entries set from the column
\* of the last entry on and not from the column after it
fillMatrixFromLastColumn(m) ==
  IF Len(m.entries) # m.num_nz THEN [status |-> 1]
  ELSE IF m.entries = <<>>
  THEN [status |-> 0, a_start |-> Const(m.num_col + 1, 0), a_index |-> <<>>,
        a_value |-> <<>>]
  ELSE Only({
    IF f.status # 0 THEN [status |-> 1]
    ELSE Only({
      [status |-> IF \E i \in 1..m.num_col : a_start[i] > a_start[i + 1]
                  THEN 1 ELSE 0,
       a_start |-> a_start,
       a_index |-> [k \in 1..m.num_nz |-> m.entries[k][2]],
       a_value |-> [k \in 1..m.num_nz |-> m.entries[k][3]]]
      : a_start \in {[i \in 1..(m.num_col + 1) |->
                        IF i - 1 >= f.newColIndex THEN m.num_nz
                        ELSE f.a_start[i]]} })
    : f \in {fillStarts(m, 0, m.entries[1][1], Const(m.num_col + 1, 0))} })

\* HMpsFF::fillMatrix
fillMatrix(m) ==
  IF Len(m.entries) # m.num_nz THEN [status |-> 1]
  ELSE IF m.entries = <<>>
  THEN [status |-> 0, a_start |-> Const(m.num_col + 1, 0), a_index |-> <<>>,
        a_value |-> <<>>]
  ELSE Only({
    IF f.status # 0 THEN [status |-> 1]
    ELSE Only({
      [status |-> IF \E i \in 1..m.num_col : a_start[i] > a_start[i + 1]
                  THEN 1 ELSE 0,
       a_start |-> a_start,
       a_index |-> [k \in 1..m.num_nz |-> m.entries[k][2]],
       a_value |-> [k \in 1..m.num_nz |-> m.entries[k][3]]]
      : a_start \in {[i \in 1..(m.num_col + 1) |->
                        IF i - 1 > f.newColIndex THEN m.num_nz
                        ELSE f.a_start[i]]} })
    : f \in {fillStarts(m, 0, m.entries[1][1], Const(m.num_col + 1, 0))} })

\* The entries of q_entries of the columns from iCol on, column by column
\* and within a column in the order in which they were read
RECURSIVE hessianColumns(_, _)
hessianColumns(m, iCol) ==
  IF iCol >= m.num_col THEN <<>>
  ELSE SelectSeq(m.q_entries, LAMBDA e : e[2] = iCol) \o hessianColumns(m, iCol + 1)

\* HMpsFF::fillHessian and the Hessian that loadProblem hands over (lines
\* 121-129): with no entry the Hessian is cleared
fillHessian(m) ==
  IF m.q_entries = <<>>
  THEN [dim_ |-> 0, format_ |-> "kTriangular", start_ |-> <<0>>,
        index_ |-> <<>>, value_ |-> <<>>]
  ELSE Only({
    [dim_ |-> m.num_col, format_ |-> "kTriangular",
     start_ |-> [i \in 1..(m.num_col + 1) |->
                   Cardinality({iEl \in 1..Len(m.q_entries) :
                                  m.q_entries[iEl][2] < i - 1})],
     index_ |-> [iEl \in 1..Len(sorted) |-> sorted[iEl][1]],
     value_ |-> [iEl \in 1..Len(sorted) |-> sorted[iEl][3]]]
    : sorted \in {hessianColumns(m, 0)} })

\* The costs of the columns from the nonzeros of the objective row
colCost(m) ==
  [i \in 1..m.num_col |->
     IF \E k \in 1..Len(m.coeffobj) : m.coeffobj[k][1] = i - 1
     THEN m.coeffobj[CHOOSE k \in 1..Len(m.coeffobj) :
                       /\ m.coeffobj[k][1] = i - 1
                       /\ \A j \in (k + 1)..Len(m.coeffobj) :
                            m.coeffobj[j][1] # i - 1][2]
     ELSE 0]

\* What HMpsFF::loadProblem returns: the reader, the return code and the
\* model that it has filled
Loaded(m, code, model) == [m |-> m, code |-> code, model |-> model]

NoModel == [null |-> TRUE]

\* The duplicate names of loadProblem, lines 63-78
duplicateNames(m) ==
  Only({
    IF m1.has_duplicate_col_name_
    THEN highsLogUser([m1 EXCEPT !.warning_issued_ = TRUE, !.col_names = <<>>],
                      "kWarning", "Variables have the same name",
                      <<m1.duplicate_col_name_index0_,
                        m1.duplicate_col_name_index1_>>)
    ELSE m1
    : m1 \in {IF m.has_duplicate_row_name_
              THEN highsLogUser([m EXCEPT !.warning_issued_ = TRUE,
                                          !.row_names = <<>>],
                                "kWarning",
                                "Linear constraints have the same name",
                                <<m.duplicate_row_name_index0_,
                                  m.duplicate_row_name_index1_>>)
              ELSE m} })

\* HMpsFF::loadProblem
loadProblem(m) ==
  Only({
    IF r.code # "kSuccess" THEN Loaded(r.m, r.code, NoModel)
    ELSE IF r.m.qrows_entries # <<>>
    THEN Loaded(highsLogUser(r.m, "kError",
                             "Quadratic rows not supported by HiGHS", <<>>),
                "kParserError", NoModel)
    ELSE IF r.m.sos_entries # <<>>
    THEN Loaded(highsLogUser(r.m, "kError", "SOS not supported by HiGHS", <<>>),
                "kParserError", NoModel)
    ELSE IF r.m.cone_entries # <<>>
    THEN Loaded(highsLogUser(r.m, "kError", "Cones not supported by HiGHS",
                             <<>>), "kParserError", NoModel)
    ELSE Only({
      Only({
        IF a.status # 0 THEN Loaded(d, "kParserError", NoModel)
        ELSE Loaded(d, "kSuccess",
               [lp |-> [num_row_ |-> d.num_row, num_col_ |-> d.num_col,
                        sense_ |-> d.obj_sense, offset_ |-> d.obj_offset,
                        a_matrix_ |-> [start_ |-> a.a_start,
                                       index_ |-> a.a_index,
                                       value_ |-> a.a_value],
                        col_cost_ |-> colCost(d),
                        col_lower_ |-> d.col_lower, col_upper_ |-> d.col_upper,
                        row_lower_ |-> d.row_lower, row_upper_ |-> d.row_upper,
                        row_names_ |-> d.row_names, col_names_ |-> d.col_names,
                        integrality_ |->
                          IF \E i \in 1..Len(d.col_integrality) :
                               d.col_integrality[i] # "kContinuous"
                          THEN d.col_integrality ELSE <<>>,
                        cost_row_location_ |-> d.cost_row_location],
                hessian_ |-> fillHessian(d)])
        : a \in {fillMatrix(d)} })
      : d \in {duplicateNames(r.m)} })
    : r \in {parse([m EXCEPT !.warning_issued_ = FALSE])} })

(***************************************************************************)
(* Files for the reader. A file is written line by line; a line that ends  *)
(* every parse that reads it is written last. The reader is then run on    *)
(* the file, and what it returns is kept beside the file.                   *)
(***************************************************************************)
NoLines == [file |-> <<>>, state |-> "open"]

InitFile == InitHighs("kMinimize", 0, 0) /\ mps = NoLines

HighsUnchanged ==
  UNCHANGED <<lp, options, basis, model_status, solution, info, ekk, call, pre,
              pc, ef, trace, multi_linear_objective_, hessian_>>

\* A line is written at the end of the file
WriteLine(lines, size) ==
  /\ mps.state = "open"
  /\ Len(mps.file) < size
  /\ \E strline \in lines : mps' = [mps EXCEPT !.file = Append(@, strline)]
  /\ HighsUnchanged

\* The last line of the file is written
WriteLastLine(lines, size) ==
  /\ mps.state = "open"
  /\ Len(mps.file) < size
  /\ \E strline \in lines :
       mps' = [mps EXCEPT !.file = Append(@, strline), !.state = "closed"]
  /\ HighsUnchanged

\* The time limits of a run: none, or one that passes while the last line
\* of the file is read
Deadlines(file) == {0, Len(file)}

\* HMpsFF::parse is run on the file between the lines of head and foot
ParseOf(head, foot, builds) ==
  /\ mps.state \in {"open", "closed"}
  /\ \E is_open \in BOOLEAN, assertions \in builds :
       \E deadline \in Deadlines(head \o mps.file \o foot) :
         mps' = [file |-> mps.file, state |-> "parsed",
                 r |-> parse(HMpsFF(head \o mps.file \o foot, is_open,
                                    deadline, assertions))]
  /\ HighsUnchanged

\* HMpsFF::loadProblem is run on the file between the lines of head and foot
LoadProblemOf(head, foot, builds) ==
  /\ mps.state \in {"open", "closed"}
  /\ \E is_open \in BOOLEAN, assertions \in builds :
       \E deadline \in Deadlines(head \o mps.file \o foot) :
         mps' = [file |-> mps.file, state |-> "loaded",
                 r |-> loadProblem(HMpsFF(head \o mps.file \o foot, is_open,
                                          deadline, assertions))]
  /\ HighsUnchanged

\* The lines of the files that HMpsFF::parse is run on
ParseLines ==
  {<<"ROWS">>, <<"N", "COST">>, <<"L", "R1">>, <<"L", "R1", "X">>,
   <<"COLUMNS">>, <<"X", "R1", "1">>}

EndLines ==
  {<<"ENDATA">>, <<"DELAYEDROWS">>, <<"MODELCUTS">>, <<"USERCUTS">>,
   <<"INDICATORS">>, <<"GENCONS">>, <<"PWLOBJ">>, <<"PWLNAM">>, <<"PWLCON">>}

MaxLine == 4

Builds == BOOLEAN

WriteParseLine == WriteLine(ParseLines, MaxLine)

WriteEndLine == WriteLastLine(EndLines, MaxLine)

Parse == ParseOf(<<>>, <<>>, Builds)

NextParse == WriteParseLine \/ WriteEndLine \/ Parse

SpecParse == InitFile /\ [][NextParse]_vars

\* HMpsFF::FreeFormatParserReturnCode
ParserReturnCodes ==
  {"kSuccess", "kParserError", "kFixedFormat", "kTimeout", "kFileNotFound"}

\* The keywords that the parsing loop has met
KeysMet(m) == {m.keys[i] : i \in 1..Len(m.keys)}

\* C25: a run of HMpsFF::parse ends with one of the outcomes success, parser
\* error, fixed format, timeout and file-not-found; it ends with success only
\* if the keyword ENDATA has been reached, and with a parser error whenever
\* one of the keywords DELAYEDROWS, MODELCUTS, USERCUTS, INDICATORS, GENCONS,
\* PWLOBJ, PWLNAM, PWLCON has been met or the input has ended before ENDATA
C25_ParseOutcome ==
  mps.state = "parsed" =>
    /\ mps.r.code \in ParserReturnCodes
    /\ mps.r.code = "kSuccess" => "kEnd" \in KeysMet(mps.r.m)
    /\ KeysMet(mps.r.m) \cap Unparsed # {} => mps.r.code = "kParserError"
    /\ mps.r.m.eof => mps.r.code = "kParserError"

(***************************************************************************)
(* Free rows: a file with the objective COST, the free row FREE and the    *)
(* row R1, whose column X has an entry in R1                                *)
(***************************************************************************)
FreeHead ==
  <<<<"ROWS">>, <<"N", "COST">>, <<"N", "FREE">>, <<"L", "R1">>,
    <<"COLUMNS">>, <<"X", "R1", "1">>>>

FreeFoot == <<<<"ENDATA">>>>

\* A line is an entry of the column X in COLUMNS and an entry of the set X
\* in RHS and in RANGES
FreeLines ==
  {<<"X", "FREE", "2">>, <<"X", "COST", "1">>, <<"X", "R1", "1">>,
   <<"X", "FREE", "1", "R1", "2">>, <<"X", "R1", "2", "FREE", "1">>,
   <<"RHS">>, <<"RANGES">>}

MaxFreeLine == 4

WriteFreeLine == WriteLine(FreeLines, MaxFreeLine)

LoadFree == LoadProblemOf(FreeHead, FreeFoot, Builds)

NextFree == WriteFreeLine \/ LoadFree

SpecFree == InitFile /\ [][NextFree]_vars

\* A line without the pairs of a row name and a value that name the row
withoutRow(strline, name) ==
  IF Len(strline) >= 3 /\ strline[2] = name
  THEN <<strline[1]>> \o SubSeq(strline, 4, Len(strline))
  ELSE IF Len(strline) >= 5 /\ strline[4] = name
  THEN SubSeq(strline, 1, 3)
  ELSE strline

\* A file without the entries of a row: a line that holds no other entry
\* is left out
RECURSIVE withoutEntriesOf(_, _)
withoutEntriesOf(file, name) ==
  IF file = <<>> THEN <<>>
  ELSE IF Len(withoutRow(Head(file), name)) = 1 /\ Len(Head(file)) > 1
  THEN withoutEntriesOf(Tail(file), name)
  ELSE <<withoutRow(Head(file), name)>> \o withoutEntriesOf(Tail(file), name)

\* The run of loadProblem on the file of a reader without the entries of a
\* row, for the same build and with the time limit at the same place
loadProblemWithout(m, name) ==
  loadProblem(HMpsFF(withoutEntriesOf(m.file, name), m.is_open,
                     IF m.deadline = 0 THEN 0
                     ELSE Len(withoutEntriesOf(m.file, name)),
                     m.assertions))

\* C26: the first N row of ROWS is the objective, a later N row is a free row
\* that adds no row to the model, and the coefficients, RHS values and RANGES
\* values given for the free row change nothing: the file is read as the
\* file without these entries is, with the same matrix, costs, objective
\* offset and row bounds
C26_FreeRowsIgnored ==
  (mps.state = "loaded"
   /\ loadProblemWithout(mps.r.m, "FREE").code = "kSuccess") =>
    /\ mps.r.code = "kSuccess"
    /\ mps.r.m.objective_name = "COST"
    /\ mps.r.model.lp.cost_row_location_ = 0
    /\ mps.r.model.lp.num_row_ = 1
    /\ mps.r.m.rowname2idx["FREE"] = -2
    /\ LET without == loadProblemWithout(mps.r.m, "FREE").model.lp
       IN /\ mps.r.model.lp.a_matrix_ = without.a_matrix_
          /\ mps.r.model.lp.col_cost_ = without.col_cost_
          /\ mps.r.model.lp.offset_ = without.offset_
          /\ mps.r.model.lp.row_lower_ = without.row_lower_
          /\ mps.r.model.lp.row_upper_ = without.row_upper_

(***************************************************************************)
(* Duplicate names: files with the objective COST whose sections ROWS,     *)
(* COLUMNS and BOUNDS name the row R1 and the columns X and Y              *)
(***************************************************************************)
DupHead == <<<<"ROWS">>, <<"N", "COST">>>>

DupFoot == <<<<"ENDATA">>>>

\* The lines that can follow in each section
DupLines ==
  [section \in {"ROWS", "COLUMNS", "BOUNDS"} |->
     CASE section = "ROWS" ->
            {<<"L", "R1">>, <<"G", "R1">>, <<"N", "R1">>, <<"COLUMNS">>}
       [] section = "COLUMNS" ->
            {<<"X", "R1", "1">>, <<"Y", "R1", "2">>, <<"BOUNDS">>}
       [] section = "BOUNDS" ->
            {<<"UP", "BND", "X", "1">>, <<"UP", "BND", "Y", "2">>}]

\* The section that the last line of a file is in
RECURSIVE SectionOf(_)
SectionOf(file) ==
  IF Len(file[Len(file)]) = 1 THEN file[Len(file)][1]
  ELSE SectionOf(SubSeq(file, 1, Len(file) - 1))

\* A line of the section that the file is in is written at its end
WriteSectionLine(head, lines, size) ==
  /\ mps.state = "open"
  /\ Len(mps.file) < size
  /\ \E strline \in lines[SectionOf(head \o mps.file)] :
       mps' = [mps EXCEPT !.file = Append(@, strline)]
  /\ HighsUnchanged

MaxDupLine == 7

WriteDupLine == WriteSectionLine(DupHead, DupLines, MaxDupLine)

LoadDup == LoadProblemOf(DupHead, DupFoot, Builds)

NextDup == WriteDupLine \/ LoadDup

SpecDup == InitFile /\ [][NextDup]_vars

\* The lines of ROWS, of COLUMNS and of BOUNDS in these files
RowsOf(file) == SelectSeq(file, LAMBDA l : Len(l) = 2)

ColsOf(file) == SelectSeq(file, LAMBDA l : Len(l) = 3)

BoundsOf(file) == SelectSeq(file, LAMBDA l : Len(l) = 4)

\* The lines of COLUMNS at which a column begins: the first, and each whose
\* name is not that of the line before
ColumnStarts(cols) == {i \in 1..Len(cols) : i = 1 \/ cols[i][1] # cols[i - 1][1]}

\* The index of the column that begins at a line
ColumnAt(cols, i) == Cardinality({j \in ColumnStarts(cols) : j < i})

\* The rows of ROWS that are rows of the model, and the index of each
ModelRows(rows) == {i \in 1..Len(rows) : rows[i][1] # "N"}

RowAt(rows, i) == Cardinality({j \in ModelRows(rows) : j < i})

\* A run of loadProblem that nothing but the names can hinder: the file
\* opens, there is no time limit, and the row named in COLUMNS is declared
DupRun ==
  /\ mps.state = "loaded"
  /\ mps.r.m.is_open
  /\ mps.r.m.deadline = 0
  /\ RowsOf(mps.file) # <<>>

Warned(m, text) ==
  \E i \in 1..Len(m.log) : m.log[i].type = "kWarning" /\ m.log[i].text = text

\* What duplicate row names come to for the rows at the lines of later:
\* success with a warning, a row of the model for every line of ROWS that is
\* not a free row, no entry and no changed bound in the rows of later, and
\* no row names
RowNamesKept(later) ==
  LET rows == RowsOf(mps.file)
      read == mps.r.model.lp
  IN /\ mps.r.code = "kSuccess"
     /\ mps.r.m.warning_issued_
     /\ Warned(mps.r.m, "Linear constraints have the same name")
     /\ read.num_row_ = Cardinality(ModelRows(rows))
     /\ Len(read.row_lower_) = read.num_row_
     /\ \A j \in later :
          /\ j \in ModelRows(rows)
          /\ \A k \in 1..Len(read.a_matrix_.index_) :
               read.a_matrix_.index_[k] # RowAt(rows, j)
          /\ read.row_lower_[RowAt(rows, j) + 1] =
               (IF rows[j][1] = "G" THEN 0 ELSE -kHighsInf)
          /\ read.row_upper_[RowAt(rows, j) + 1] =
               (IF rows[j][1] = "L" THEN 0 ELSE kHighsInf)
     /\ (rows[1][1] # "N" /\ ColsOf(mps.file) # <<>>) =>
          \E k \in 1..Len(read.a_matrix_.index_) : read.a_matrix_.index_[k] = 0
     /\ read.row_names_ = <<>>

\* The same for the columns that begin at the lines of later: the bounds of
\* BOUNDS go to the first column of a name
ColNamesKept(later) ==
  LET cols == ColsOf(mps.file)
      bounds == BoundsOf(mps.file)
      read == mps.r.model.lp
      first(name) == CHOOSE i \in ColumnStarts(cols) :
                       /\ cols[i][1] = name
                       /\ \A j \in ColumnStarts(cols) :
                            cols[j][1] = name => i <= j
  IN /\ mps.r.code = "kSuccess"
     /\ mps.r.m.warning_issued_
     /\ Warned(mps.r.m, "Variables have the same name")
     /\ read.num_col_ = Cardinality(ColumnStarts(cols))
     /\ Len(read.col_upper_) = read.num_col_
     /\ \A j \in later : read.col_upper_[ColumnAt(cols, j) + 1] = kHighsInf
     /\ \A b \in 1..Len(bounds) :
          read.col_upper_[ColumnAt(cols, first(bounds[b][3])) + 1] =
            getValue(bounds[b][4])
     /\ read.col_names_ = <<>>

\* The lines of ROWS whose name has occurred in an earlier line of ROWS
LaterRows(rows) ==
  {j \in 1..Len(rows) : \E i \in 1..(j - 1) : rows[i][2] = rows[j][2]}

\* The lines of COLUMNS at which a column begins whose name an earlier
\* column has
LaterCols(cols) ==
  {j \in ColumnStarts(cols) :
     \E i \in ColumnStarts(cols) : i < j /\ cols[i][1] = cols[j][1]}

MarkerHead == <<<<"ROWS">>, <<"N", "COST">>, <<"L", "R1">>, <<"COLUMNS">>>>

MarkerFoot == <<<<"ENDATA">>>>

MarkerLines ==
  {<<"X", "R1", "1">>, <<"Y", "R1", "1">>, <<"M", "'MARKER'", "'INTORG'">>,
   <<"M", "'MARKER'", "'INTEND'">>, <<"M", "'MARKER'", "'INTMID'">>}

MaxMarkerLine == 5

WriteMarkerLine == WriteLine(MarkerLines, MaxMarkerLine)

LoadMarker == LoadProblemOf(MarkerHead, MarkerFoot, Builds)

NextMarker == WriteMarkerLine \/ LoadMarker

SpecMarker == InitFile /\ [][NextMarker]_vars

\* The places in a file of its marker lines and of the other lines
MarkersIn(file) == {i \in 1..Len(file) : file[i][2] = "'MARKER'"}

\* The marker lines are INTORG, INTEND, INTORG, ... in turn
Alternate(file) ==
  \A i \in MarkersIn(file) :
    file[i][3] = IF Cardinality({j \in MarkersIn(file) : j < i}) % 2 = 0
                 THEN "'INTORG'" ELSE "'INTEND'"

\* The lines at which a column begins: no marker line, and the name is not
\* that of the line of a column before it
BeginsColumn(file, i) ==
  /\ i \notin MarkersIn(file)
  /\ \A j \in 1..(i - 1) :
       (j \notin MarkersIn(file)
        /\ \A k \in (j + 1)..(i - 1) : k \in MarkersIn(file)) =>
         file[j][1] # file[i][1]

ColumnsIn(file) == {i \in 1..Len(file) : BeginsColumn(file, i)}

\* The line is after an INTORG and before the INTEND that follows it
InIntegerPart(file, i) ==
  \E j \in MarkersIn(file) :
    /\ j < i
    /\ file[j][3] = "'INTORG'"
    /\ \A k \in (j + 1)..(i - 1) : k \notin MarkersIn(file)

MarkerRun ==
  /\ mps.state = "loaded"
  /\ mps.r.m.is_open
  /\ mps.r.m.deadline = 0

\* C28: the marker lines of COLUMNS must be INTORG, INTEND, INTORG, ... in
\* turn, any other marker or order makes the reader fail, and a column is
\* integer exactly when its first line is after an INTORG and before the
\* INTEND that follows it
C28_MarkersAlternate ==
  MarkerRun =>
    /\ ~Alternate(mps.file) => mps.r.code = "kParserError"
    /\ Alternate(mps.file) =>
         /\ mps.r.code = "kSuccess"
         /\ mps.r.m.num_col = Cardinality(ColumnsIn(mps.file))
         /\ \A i \in ColumnsIn(mps.file) :
              LET col == Cardinality({j \in ColumnsIn(mps.file) : j < i})
              IN /\ mps.r.m.col_integrality[col + 1] = "kInteger"
                    <=> InIntegerPart(mps.file, i)
                 /\ mps.r.m.col_integrality[col + 1] \in {"kInteger", "kContinuous"}
                 /\ (\E j \in ColumnsIn(mps.file) : InIntegerPart(mps.file, j)) =>
                      mps.r.model.lp.integrality_[col + 1] =
                        mps.r.m.col_integrality[col + 1]

\* A file with a column before the markers, one between INTORG and INTEND
\* and one after INTEND has been read
C28_Witness ==
  /\ MarkerRun
  /\ mps.file = <<<<"X", "R1", "1">>, <<"M", "'MARKER'", "'INTORG'">>,
                  <<"Y", "R1", "1">>, <<"M", "'MARKER'", "'INTEND'">>,
                  <<"X", "R1", "1">>>>
  /\ mps.r.code = "kSuccess"
  /\ mps.r.model.lp.integrality_ = <<"kContinuous", "kInteger", "kContinuous">>

(***************************************************************************)
(* Ignored entries: files whose column X has a cost and an entry in R1,    *)
(* followed in COLUMNS and in RHS by lines that are ignored                 *)
(***************************************************************************)
IgnoredHead ==
  <<<<"ROWS">>, <<"N", "COST">>, <<"L", "R1">>, <<"COLUMNS">>,
    <<"X", "COST", "1", "R1", "1">>>>

IgnoredFoot == <<<<"ENDATA">>>>

\* In COLUMNS the lines are an undefined row, a second entry in R1 and a
\* second cost of X; in RHS the set X names an undefined row, and R1 and the
\* objective, each of which takes its first value only
IgnoredLines ==
  [section \in {"COLUMNS", "RHS"} |->
     IF section = "COLUMNS"
     THEN {<<"X", "UNDEFINED", "1">>, <<"X", "R1", "1">>, <<"X", "COST", "1">>,
           <<"RHS">>}
     ELSE {<<"X", "UNDEFINED", "1">>, <<"X", "R1", "1">>, <<"X", "COST", "1">>}]

MaxIgnoredLine == 6

WriteIgnoredLine == WriteSectionLine(IgnoredHead, IgnoredLines, MaxIgnoredLine)

LoadIgnored == LoadProblemOf(IgnoredHead, IgnoredFoot, Builds)

NextIgnored == WriteIgnoredLine \/ LoadIgnored

SpecIgnored == InitFile /\ [][NextIgnored]_vars

IsPowerOfTwo(n) == \E k \in 0..n : 2 ^ k = n

\* The lines of the file that the reader has read
FileRead == mps.r.m.file

\* The line that ends COLUMNS, and the lines of COLUMNS and of RHS that
\* follow the first line of X
ColumnsEnd ==
  CHOOSE i \in 1..Len(FileRead) :
    /\ Len(FileRead[i]) = 1
    /\ i > Len(IgnoredHead)
    /\ \A j \in (Len(IgnoredHead) + 1)..(i - 1) : Len(FileRead[j]) > 1

InColumns == (Len(IgnoredHead) + 1)..(ColumnsEnd - 1)

InRhs == (ColumnsEnd + 1)..(Len(FileRead) - 1)

\* The lines of a range that name a row, and those of them before which a
\* line of the range names the same row
Naming(range, rows) == {i \in range : FileRead[i][2] \in rows}

Repeating(range, rows) ==
  {i \in Naming(range, rows) :
     \E j \in Naming(range, rows) : j < i /\ FileRead[j][2] = FileRead[i][2]}

\* The lines at which a message has been logged
LoggedAt(text) ==
  {mps.r.m.log[k].line : k \in {j \in 1..Len(mps.r.m.log) :
                                  mps.r.m.log[j].text = text}}

\* The n-th of the lines of occurrences is reported exactly when n is a
\* power of two, and nothing else is reported
AtPowersOfTwo(occurrences, text) ==
  /\ LoggedAt(text) \subseteq occurrences
  /\ \A i \in occurrences :
       i \in LoggedAt(text)
         <=> IsPowerOfTwo(Cardinality({j \in occurrences : j <= i}))
  /\ Cardinality({j \in 1..Len(mps.r.m.log) : mps.r.m.log[j].text = text})
       = Cardinality(LoggedAt(text))

\* The summary of a section is logged at its end with the counts, exactly
\* when one of them is not zero
Summarised(text, counts, end) ==
  /\ (\E c \in 1..Len(counts) : counts[c] # 0) =>
       \E k \in 1..Len(mps.r.m.log) :
         /\ mps.r.m.log[k].text = text
         /\ mps.r.m.log[k].type = "kWarning"
         /\ mps.r.m.log[k].numbers = counts
         /\ mps.r.m.log[k].line = end
  /\ (\A c \in 1..Len(counts) : counts[c] = 0) =>
       \A k \in 1..Len(mps.r.m.log) : mps.r.m.log[k].text # text

IgnoredRun ==
  /\ mps.state = "loaded"
  /\ mps.r.m.is_open
  /\ mps.r.m.deadline = 0

\* C29: of the ignored entries of each kind in a section the n-th is logged
\* exactly when n is a power of two, and at the end of the section a summary
\* with the counts is logged whenever a count is not zero
C29_IgnoredReports ==
  IgnoredRun =>
    /\ mps.r.code = "kSuccess"
    /\ AtPowersOfTwo(Naming(InColumns, {"UNDEFINED"}),
                     "Row name in COLUMNS section is not defined: ignored")
    /\ AtPowersOfTwo(Naming(InColumns, {"COST"}),
                     "Column has duplicate nonzero in objective row: ignored")
    /\ AtPowersOfTwo(Naming(InColumns, {"R1"}),
                     "Column has duplicate nonzero in row: ignored")
    /\ Summarised("COLUMNS section: ignored",
                  <<Cardinality(Naming(InColumns, {"UNDEFINED"})),
                    Cardinality(Naming(InColumns, {"COST"})),
                    Cardinality(Naming(InColumns, {"R1"}))>>,
                  ColumnsEnd)
    /\ AtPowersOfTwo(Naming(InRhs, {"UNDEFINED"}),
                     "Row name in RHS section is not defined: ignored")
    /\ AtPowersOfTwo(Repeating(InRhs, {"COST", "R1"}),
                     "Row name in RHS section has duplicate value: ignored")
    /\ Summarised("RHS section: ignored",
                  <<Cardinality(Naming(InRhs, {"UNDEFINED"})),
                    Cardinality(Repeating(InRhs, {"COST", "R1"}))>>,
                  Len(FileRead))

\* A file with five undefined rows in COLUMNS, of which the first, the
\* second and the fourth have been logged, has been read
C29_Witness ==
  /\ IgnoredRun
  /\ Cardinality(Naming(InColumns, {"UNDEFINED"})) = 5
  /\ ColumnsEnd < Len(FileRead)
  /\ LoggedAt("Row name in COLUMNS section is not defined: ignored")
       = {Len(IgnoredHead) + 1, Len(IgnoredHead) + 2, Len(IgnoredHead) + 4}
  /\ \E k \in 1..Len(mps.r.m.log) :
       /\ mps.r.m.log[k].text = "COLUMNS section: ignored"
       /\ mps.r.m.log[k].numbers = <<5, 0, 0>>

(***************************************************************************)
(* Fixed format: files whose ROWS section has names of one word, short and *)
(* long, and names with a space, short and long                             *)
(***************************************************************************)
FixedHead == <<<<"ROWS">>>>

FixedFoot == <<<<"ENDATA">>>>

FixedLines ==
  {<<"N", "COST">>, <<"L", "R1">>, <<"L", "VERYLONGROW">>, <<"L", "MY", "ROW">>,
   <<"L", "MYLONG", "ROW1">>}

MaxFixedLine == 3

WriteFixedLine == WriteLine(FixedLines, MaxFixedLine)

LoadFixed == LoadProblemOf(FixedHead, FixedFoot, Builds)

NextFixed == WriteFixedLine \/ LoadFixed

SpecFixed == InitFile /\ [][NextFixed]_vars

\* A run on a file with a row, in which the file opens and no time limit
\* passes
FixedRun ==
  /\ mps.state = "loaded"
  /\ mps.r.m.is_open
  /\ mps.r.m.deadline = 0
  /\ mps.file # <<>>

\* The key that the last parse function has returned
LastKey == mps.r.m.keys[Len(mps.r.m.keys)]

\* C30 as stated: if the first row name met in ROWS is longer than the 8
\* characters of the field of fixed format, parseRows returns the key of
\* fixed format and the reader returns the status of fixed format, not a
\* parser error
C30_LongNameIsFixedFormat ==
  (FixedRun /\ TextSize(Tail(mps.file[1])) > 8) =>
    /\ LastKey = "kFixedFormat"
    /\ mps.r.code = "kFixedFormat"

\* C30, amended: if the first row name met in ROWS is followed by more text
\* on its line, parseRows returns the key of fixed format and the reader the
\* status of fixed format when the text from the name to the end of the line
\* is at most 8 characters long, and the reader returns a parser error when
\* it is longer; a name of one word is a row of free format of any length
C30_NameWithSpacesIsFixedFormat ==
  FixedRun =>
    /\ (Len(mps.file[1]) > 2 /\ TextSize(Tail(mps.file[1])) <= 8) =>
         /\ LastKey = "kFixedFormat"
         /\ mps.r.code = "kFixedFormat"
    /\ (Len(mps.file[1]) > 2 /\ TextSize(Tail(mps.file[1])) > 8) =>
         /\ LastKey = "kFail"
         /\ mps.r.code = "kParserError"
    /\ Len(mps.file[1]) = 2 =>
         /\ mps.r.m.rowname2idx[mps.file[1][2]] \in {-1, 0}
         /\ mps.r.m.pos > Len(FixedHead) + 1

\* A file whose first row has the name MY ROW has been read
C30_Witness ==
  /\ FixedRun
  /\ mps.file[1] = <<"L", "MY", "ROW">>
  /\ mps.r.code = "kFixedFormat"
  /\ mps.r.m.pos = 2

(***************************************************************************)
(* Quadratic objectives: files with the columns X and Y whose sections     *)
(* QUADOBJ, QMATRIX and QSECTION give entries of both triangles             *)
(***************************************************************************)
HessianHead ==
  <<<<"ROWS">>, <<"N", "COST">>, <<"L", "R1">>, <<"COLUMNS">>,
    <<"X", "R1", "1">>, <<"Y", "R1", "1">>>>

HessianFoot == <<<<"ENDATA">>>>

\* The first word of an entry names the column, the second the row
HessianLines ==
  {<<"QUADOBJ">>, <<"QMATRIX">>, <<"QSECTION", "COST">>, <<"X", "X", "2">>,
   <<"X", "Y", "1">>, <<"Y", "X", "1">>}

MaxHessianLine == 3

WriteHessianLine == WriteLine(HessianLines, MaxHessianLine)

LoadHessian == LoadProblemOf(HessianHead, HessianFoot, Builds)

NextHessian == WriteHessianLine \/ LoadHessian

SpecHessian == InitFile /\ [][NextHessian]_vars

\* The places of the entries of a column in a matrix stored by columns
Slice(matrix, iCol) == (matrix.start_[iCol + 1] + 1)..matrix.start_[iCol + 2]

\* C31: after a successful loadProblem every entry of the Hessian has a row
\* index that is at least its column index, whether it was read from
\* QUADOBJ, from QMATRIX or from QSECTION
C31_HessianTriangular ==
  (mps.state = "loaded" /\ mps.r.code = "kSuccess") =>
    \A iCol \in 0..(mps.r.model.hessian_.dim_ - 1) :
      \A iEl \in Slice(mps.r.model.hessian_, iCol) :
        mps.r.model.hessian_.index_[iEl] >= iCol

(***************************************************************************)
(* The matrix by columns: files whose columns have a cost only, or entries *)
(* in the rows R1 and R2; a line with another name begins another column   *)
(***************************************************************************)
MatrixHead ==
  <<<<"ROWS">>, <<"N", "COST">>, <<"L", "R1">>, <<"L", "R2">>, <<"COLUMNS">>>>

MatrixFoot == <<<<"ENDATA">>>>

MatrixLines ==
  {<<"X", "COST", "1">>, <<"X", "R2", "1">>, <<"Y", "R1", "2">>,
   <<"Y", "R2", "2.5">>}

MaxMatrixLine == 5

WriteMatrixLine == WriteLine(MatrixLines, MaxMatrixLine)

LoadMatrix == LoadProblemOf(MatrixHead, MatrixFoot, Builds)

NextMatrix == WriteMatrixLine \/ LoadMatrix

SpecMatrix == InitFile /\ [][NextMatrix]_vars

\* The lines of the column that begins at line i of COLUMNS
ColumnLines(cols, i) ==
  {j \in i..Len(cols) : \A l \in (i + 1)..j : l \notin ColumnStarts(cols)}

\* The lines of that column that give an entry of the matrix: the first line
\* of the column for each of the rows R1 and R2
EntryLines(cols, i) ==
  {j \in ColumnLines(cols, i) :
     /\ cols[j][2] \in {"R1", "R2"}
     /\ \A l \in ColumnLines(cols, i) : l < j => cols[l][2] # cols[j][2]}

\* C32: after a successful loadProblem the starts of the columns begin with
\* 0, end with the number of entries and never decrease, and the slice of a
\* column holds the entries read for it, in the order of the file, also when
\* columns at the beginning, in the middle or at the end have no entry
C32_ColumnSlices ==
  (mps.state = "loaded" /\ mps.r.code = "kSuccess") =>
    LET a_matrix_ == mps.r.model.lp.a_matrix_
        num_col_ == mps.r.model.lp.num_col_
    IN  /\ num_col_ = Cardinality(ColumnStarts(mps.file))
        /\ Len(a_matrix_.start_) = num_col_ + 1
        /\ a_matrix_.start_[1] = 0
        /\ a_matrix_.start_[num_col_ + 1] = mps.r.m.num_nz
        /\ Len(a_matrix_.index_) = mps.r.m.num_nz
        /\ \A k \in 1..num_col_ : a_matrix_.start_[k + 1] >= a_matrix_.start_[k]
        /\ \A i \in ColumnStarts(mps.file) :
             /\ Cardinality(Slice(a_matrix_, ColumnAt(mps.file, i))) =
                  Cardinality(EntryLines(mps.file, i))
             /\ \A j \in EntryLines(mps.file, i) :
                  \E iEl \in Slice(a_matrix_, ColumnAt(mps.file, i)) :
                    /\ iEl = a_matrix_.start_[ColumnAt(mps.file, i) + 1] +
                               Cardinality({l \in EntryLines(mps.file, i) : l <= j})
                    /\ a_matrix_.index_[iEl] = (IF mps.file[j][2] = "R1" THEN 0 ELSE 1)
                    /\ a_matrix_.value_[iEl] = getValue(mps.file[j][3])

\* A file whose first, third and fifth column have a cost only has been read
C32_Witness ==
  /\ mps.state = "loaded"
  /\ mps.r.code = "kSuccess"
  /\ mps.file = <<<<"X", "COST", "1">>, <<"Y", "R1", "2">>, <<"X", "COST", "1">>,
                  <<"Y", "R2", "2.5">>, <<"X", "COST", "1">>>>
  /\ mps.r.model.lp.a_matrix_.start_ = <<0, 0, 1, 1, 2, 2>>

(***************************************************************************)
(* Specification SpecPass: the passes of the elasticity filter when a      *)
(* solve may also stop at a limit, with the solves of a call counted       *)
(***************************************************************************)
MaxSolve == 6

\* elasticityFilter up to its first solve
PassBegin ==
  /\ Idle
  /\ lp.num_row_ > 0
  /\ \E P \in SeedPenalties(lp.num_row_) :
       \E b \in {elasticityFilterBuild(Highs, P, TRUE)} :
         /\ Commit(b.h)
         /\ ef' = Extend(b.ef, [penalties |-> P, fixed |-> {}, num_solve |-> 0])
         /\ Called("elasticityFilterBegin", "kOk", [penalties |-> P])
  /\ pre' = lp
  /\ pc' = "ef_solve"

\* Lines 2360-2489 after a solve that has returned kOk with the model status
\* and the column values x: the loop is left when a solve after the first
\* finds the e-LP infeasible or when the pass fixes nothing, and otherwise
\* the e-LP is solved again
PassAfterSolve(solved, status, x) ==
  \E e \in {[ef EXCEPT !.solved = TRUE,
                       !.solution = [solved.solution EXCEPT !.col_value = x],
                       !.fixed = @ \cup PositiveEcols(ef, x),
                       !.num_solve = @ + 1]} :
    IF ef.solved /\ status = "kInfeasible"
    THEN \E r \in {elasticityFilterReturn(solved, e, "kOk", FALSE)},
            subset \in {infeasibleRowSubset(solved.lp, ef, {})} :
           SeedEnd(r, e, "infeasible", FALSE, subset)
    ELSE \E fixed \in {fixPositive([solved EXCEPT !.solution.col_value = x], x,
                                   EcolIndices(ef), {}, 1)} :
           IF fixed.num_fixed = 0
           THEN \E r \in {elasticityFilterReturn(fixed.h, e, "kOk", TRUE)},
                   subset \in {infeasibleRowSubset(fixed.h.lp, ef, {})} :
                  SeedEnd(r, e, "feasible", TRUE, subset)
           ELSE /\ Commit(fixed.h)
                /\ ef' = e
                /\ Called("elasticityFilterPass", "kOk", [status |-> status])
                /\ UNCHANGED <<pre, pc>>

\* A solve that finds the e-LP infeasible
PassSolveInfeasible ==
  /\ pc = "ef_solve"
  /\ ef.num_solve < MaxSolve
  /\ FeasiblePoints(lp, ef) = {}
  /\ \E solved \in {solveLp(Highs, "kInfeasible", {}).h} :
       PassAfterSolve(solved, "kInfeasible", solved.solution.col_value)

\* A solve that ends with an optimal solution of the e-LP
PassSolveOptimal ==
  /\ pc = "ef_solve"
  /\ ef.num_solve < MaxSolve
  /\ \E F \in {FeasiblePoints(lp, ef)} :
     \E x \in Cheapest(lp, F) :
     \E solved \in {solveLp(Highs, "kOptimal", {}).h} :
       PassAfterSolve(solved, "kOptimal", x)

\* The stop conditions of a solve: run sets the model status and returns kOk
StopStatuses == {"kTimeLimit", "kIterationLimit", "kInterrupt"}

\* A solve that stops at once, the limit having been reached before: the
\* solution is that of the basis the solve begins with, which is the basis
\* of the solve before, or the logical basis when there has been none
PassSolveStopped ==
  /\ pc = "ef_solve"
  /\ ef.num_solve < MaxSolve
  /\ \E status \in StopStatuses :
     \E solved \in {solveLp(Highs, status, {}).h} :
       PassAfterSolve(solved, status,
                      IF ef.solved THEN ef.solution.col_value
                      ELSE solved.solution.col_value)

\* A solve that fails: run returns an error and the filter returns it
PassSolveError ==
  /\ pc = "ef_solve"
  /\ ef.num_solve < MaxSolve
  /\ \E failed \in {[Highs EXCEPT !.model_status = "kSolveError",
                                  !.solution = NoSolution,
                                  !.info = InvalidInfo]} :
     \E r \in {elasticityFilterReturn(failed, ef, "kError", FALSE)} :
       SeedEnd(r, ef, "solve error", FALSE, <<>>)

NextPass ==
  \/ AddColsForSeed
  \/ AddRowsForSeed
  \/ PassBegin
  \/ PassSolveInfeasible
  \/ PassSolveOptimal
  \/ PassSolveStopped
  \/ PassSolveError

SpecPass == InitSeed /\ [][NextPass]_vars

\* The e-variables that are fixed at zero in the LP
FixedEcols(l, e) ==
  {EcolIndices(e)[k] : k \in 1..Len(EcolIndices(e))}
  \cap {iCol \in 0..(l.num_col_ - 1) :
          l.col_lower_[iCol + 1] = 0 /\ l.col_upper_[iCol + 1] = 0}

\* C33: the loop of the elasticity filter ends: a pass after which the e-LP
\* is solved again has fixed an e-variable that was not fixed before, so
\* that a call solves at most once more than there are e-variables, whatever
\* model status the solves return
C33_PassesEnd ==
  [][(pc = "ef_solve" /\ pc' = "ef_solve") =>
       /\ FixedEcols(lp, ef) # FixedEcols(lp', ef)
       /\ FixedEcols(lp, ef) \subseteq FixedEcols(lp', ef)
       /\ ef'.num_solve + 1 <= Len(EcolIndices(ef)) + 1]_vars

(***************************************************************************)
(* Highs::getPrimalRayInterface                                             *)
(***************************************************************************)
\* The verdicts of the engine that leave a primal ray: unbounded, with the
\* column of the ray and its sign
PrimalRayOutcomes(num_col) ==
  {[status |-> "kOk", model_status |-> "kUnbounded", index |-> kNoRayIndex,
    sign |-> 0, primal_index |-> col, primal_sign |-> sign] :
     col \in 0..(num_col - 1), sign \in {-1, 1}}

\* Highs::run with the engine's verdict given, for the verdicts with or
\* without a primal ray
runForPrimalRay(h, outcome) ==
  Only({
    IF r.status = "kError" \/ "primal_index" \notin DOMAIN outcome THEN r
    ELSE Ret([r.h EXCEPT !.ekk.primal_ray_record_ =
                [index |-> outcome.primal_index, sign |-> outcome.primal_sign,
                 value |-> <<>>]], r.status)
    : r \in {runForRay(h, outcome)} })

\* The solve of the unboundedness problem, lines 1770-1781: presolve off,
\* the relaxation solved and unbounded told from infeasible
unboundednessSolve(h, outcome) ==
  runForPrimalRay([h EXCEPT !.options.presolve = "off",
                            !.options.solve_relaxation = TRUE,
                            !.options.allow_unbounded_or_infeasible = FALSE],
                  outcome)

\* Lines 1838-1855, were the presolve option left as the solve needs it
afterUnboundednessSolveKeepingPresolve(h, saved) ==
  Only({
    [dropped EXCEPT
       !.options.solve_relaxation = saved.options.solve_relaxation,
       !.options.allow_unbounded_or_infeasible =
          saved.options.allow_unbounded_or_infeasible]
    : dropped \in {IF isMip(h.lp)
                   THEN [h EXCEPT
                           !.info.dual_solution_status = "kSolutionStatusNone",
                           !.info.num_dual_infeasibilities =
                              kHighsIllegalInfeasibilityCount,
                           !.info.max_dual_infeasibility = 0,
                           !.info.sum_dual_infeasibilities = 0]
                   ELSE h} })

\* Lines 1838-1855: what the call puts back after a solve of the
\* unboundedness problem; saved is the object on entry
afterUnboundednessSolve(h, saved) ==
  Only({
    [dropped EXCEPT
       !.options.presolve = saved.options.presolve,
       !.options.solve_relaxation = saved.options.solve_relaxation,
       !.options.allow_unbounded_or_infeasible =
          saved.options.allow_unbounded_or_infeasible]
    : dropped \in {IF isMip(h.lp)
                   THEN [h EXCEPT
                           !.info.dual_solution_status = "kSolutionStatusNone",
                           !.info.num_dual_infeasibilities =
                              kHighsIllegalInfeasibilityCount,
                           !.info.max_dual_infeasibility = 0,
                           !.info.sum_dual_infeasibilities = 0]
                   ELSE h} })

\* Lines 1805-1826: the ray of the column col with the sign of the record
computedPrimalRay(h, col, primal_ray_sign) ==
  Only({
    [iCol \in 1..h.lp.num_col_ |->
       IF iCol - 1 = col THEN -primal_ray_sign * One
       ELSE IF \E iRow \in 1..h.lp.num_row_ : h.ekk.basicIndex_[iRow] = iCol - 1
       THEN column[CHOOSE iRow \in 1..h.lp.num_row_ :
                     h.ekk.basicIndex_[iRow] = iCol - 1]
       ELSE 0]
    : column \in {ftran(h,
                        [iRow \in 1..h.lp.num_row_ |->
                           IF col < h.lp.num_col_
                           THEN IF \E e \in h.lp.a_matrix_ :
                                     e[1] = iRow - 1 /\ e[2] = col
                                THEN primal_ray_sign *
                                     (CHOOSE e \in h.lp.a_matrix_ :
                                        e[1] = iRow - 1 /\ e[2] = col)[3]
                                ELSE 0
                           ELSE IF iRow - 1 = col - h.lp.num_col_
                           THEN primal_ray_sign * One ELSE 0])} })

\* Lines 1786-1836: the part of the call that hands the ray back.  returned
\* is TRUE when the call returns from here, before anything is put back
primalRayValue(h, status, primal_ray_value, solves) ==
  IF h.ekk.primal_ray_record_.index # kNoRayIndex
  THEN IF Len(h.ekk.primal_ray_record_.value) # 0
       THEN [Ray(h, status, TRUE, h.ekk.primal_ray_record_.value, solves)
               EXCEPT !.returned = TRUE]
       ELSE IF h.ekk.has_invert
       THEN Only({
         Ray([h EXCEPT !.ekk.primal_ray_record_.value = computed], status,
             TRUE, computed, Append(solves, "basisSolve"))
         : computed \in {computedPrimalRay(h, h.ekk.primal_ray_record_.index,
                                           h.ekk.primal_ray_record_.sign)} })
       ELSE Ray(h, status, TRUE, primal_ray_value, solves)
  ELSE Ray(h, "kOk", FALSE, primal_ray_value, solves)

\* value_null is TRUE when the caller gives no array for the ray, and
\* primal_ray_value is the array given otherwise; has_primal_ray is the
\* caller's flag on entry
getPrimalRayInterface(h, has_primal_ray, value_null, primal_ray_value, outcome) ==
  IF h.lp.num_row_ = 0
  THEN Ray(h, "kOk", has_primal_ray, primal_ray_value, <<>>)
  ELSE IF isQp(h)
  THEN Ray(h, "kError", has_primal_ray, primal_ray_value, <<>>)
  ELSE IF value_null
  THEN Ray(h, "kOk", h.ekk.primal_ray_record_.index # kNoRayIndex,
           primal_ray_value, <<>>)
  ELSE IF h.ekk.primal_ray_record_.index # kNoRayIndex /\ h.ekk.has_invert
  THEN primalRayValue(h, "kOk", primal_ray_value, <<>>)
  ELSE IF h.model_status = "kOptimal"
  THEN Ray(h, "kOk", h.ekk.primal_ray_record_.index # kNoRayIndex,
           primal_ray_value, <<>>)
  ELSE Only({ Only({
    IF ray.returned THEN ray
    ELSE [ray EXCEPT !.h = afterUnboundednessSolve(ray.h, h)]
    : ray \in {primalRayValue(solved.h, solved.status, primal_ray_value,
                              <<"run">>)} })
    : solved \in {unboundednessSolve(h, outcome)} })


(***************************************************************************)
(* Rays on models with costs, a Hessian and options of the user: the model *)
(* is built and solved and a dual or a primal ray is asked for             *)
(***************************************************************************)
PresolveSettings == {"choose", "on"}

\* Highs::setOptionValue for the three options that the ray calls change
SetRayOptions ==
  /\ Idle
  /\ \E presolve \in PresolveSettings, solve_relaxation \in BOOLEAN,
        allow_unbounded_or_infeasible \in BOOLEAN :
       Commit([Highs EXCEPT
                 !.options.presolve = presolve,
                 !.options.solve_relaxation = solve_relaxation,
                 !.options.allow_unbounded_or_infeasible =
                    allow_unbounded_or_infeasible])
  /\ Called("setOptionValue", "kOk", <<>>)
  /\ pre' = NoPre
  /\ UNCHANGED <<pc, ef>>

\* The verdicts of the engine with a dual ray, with a primal ray or with
\* neither
FrameOutcomes(num_col, num_row) ==
  RayOutcomes(num_row) \cup PrimalRayOutcomes(num_col)

SolveForFrame ==
  /\ Idle
  /\ lp.num_row_ > 0
  /\ \E outcome \in FrameOutcomes(lp.num_col_, lp.num_row_) :
       \E r \in {runForPrimalRay(Highs, outcome)} :
         Commit(r.h) /\ Called("run", r.status, <<>>)
  /\ pre' = NoPre
  /\ UNCHANGED <<pc, ef>>

\* Highs::getPrimalRay: the caller's flag starts FALSE and its array zero
GetPrimalRay ==
  /\ Idle
  /\ \E value_null \in BOOLEAN,
        outcome \in FrameOutcomes(lp.num_col_, lp.num_row_) :
       \E r \in {getPrimalRayInterface(Highs, FALSE, value_null,
                                       Const(lp.num_col_, 0), outcome)} :
         /\ Commit(r.h)
         /\ Called("getPrimalRay", r.status,
                   [value_null |-> value_null, has_primal_ray |-> r.has_dual_ray,
                    primal_ray_value |-> r.dual_ray_value, solves |-> r.solves])
  /\ pre' = NoPre
  /\ UNCHANGED <<pc, ef>>

NextFrame ==
  \/ AddColsForRay
  \/ AddRowsForRay
  \/ PassHessian
  \/ SetRayOptions
  \/ SolveForFrame
  \/ GetDualRay
  \/ GetPrimalRay

SpecFrame == InitLex /\ [][NextFrame]_vars

\* C34: when getDualRayInterface or getPrimalRayInterface has returned, by
\* whichever path, the column costs, the Hessian and the options presolve,
\* solve_relaxation and allow_unbounded_or_infeasible are what they were
\* before the call
C34_RayCallsRestore ==
  [][call'.op \in {"getDualRay", "getPrimalRay"} =>
       /\ lp'.col_cost_ = lp.col_cost_
       /\ hessian_' = hessian_
       /\ options'.presolve = options.presolve
       /\ options'.solve_relaxation = options.solve_relaxation
       /\ options'.allow_unbounded_or_infeasible =
            options.allow_unbounded_or_infeasible]_vars

\* A primal ray has been computed after a solve of the unboundedness
\* problem, made with other options than those of the user, on a model with
\* a nonzero cost
C34_Witness ==
  /\ call.op = "getPrimalRay"
  /\ call.arg.solves = <<"run", "basisSolve">>
  /\ options.presolve = "on"
  /\ ~options.solve_relaxation
  /\ options.allow_unbounded_or_infeasible
  /\ lp.col_cost_ = <<One>>


(***************************************************************************)
(* The warning flag of the reader, on the files with ignored entries       *)
(***************************************************************************)
\* C35: when loadProblem has returned success, warning_issued_ is TRUE if
\* and only if a warning was logged while the file was read, in whichever
\* section and whatever sections came after it
C35_WarningIssued ==
  (mps.state = "loaded" /\ mps.r.code = "kSuccess") =>
    (mps.r.m.warning_issued_ <=>
       \E i \in 1..Len(mps.r.m.log) : mps.r.m.log[i].type = "kWarning")


(***************************************************************************)
(* Specification SpecBounds: the bounds of the columns and rows of a       *)
(* solved model are changed, for an interval, a set or a mask               *)
(***************************************************************************)
AddColsForBounds == ~basis.valid /\ AddColsOf({0}, {Free}, {0})

AddRowsForBounds == ~basis.valid /\ AddRowsOf({UpperOnly}, {0})

\* The model is solved once, when it has its columns and rows
RunForBounds ==
  /\ ~basis.valid
  /\ lp.num_col_ > 0
  /\ \E B \in BasicSets(Highs) : RunCall("kOptimal", B, 0)

\* The bounds that a change gives to every column of the collection, and to
\* every row
NewBounds == {Free, NonNegative, Fixed, BoxedNearUpper}

NewRowBounds == {Free, BoxedNearUpper}

\* Highs::changeColsBounds
ChangeColsBounds ==
  /\ Idle
  /\ basis.valid
  /\ \E ic \in Collections(lp.num_col_), b \in NewBounds :
       \E r \in {changeColBoundsInterface(Highs, ic,
                                          Const(dataSize(ic), b[1]),
                                          Const(dataSize(ic), b[2]), FALSE)} :
         Commit(r.h) /\ Called("changeColsBounds", r.status, InCollection(ic))
  /\ pre' = NoPre
  /\ UNCHANGED <<pc, ef>>

\* Highs::changeRowsBounds
ChangeRowsBounds ==
  /\ Idle
  /\ basis.valid
  /\ lp.num_row_ > 0
  /\ \E ic \in Collections(lp.num_row_), b \in NewRowBounds :
       \E r \in {changeRowBoundsInterface(Highs, ic,
                                          Const(dataSize(ic), b[1]),
                                          Const(dataSize(ic), b[2]), FALSE)} :
         Commit(r.h) /\ Called("changeRowsBounds", r.status, InCollection(ic))
  /\ pre' = NoPre
  /\ UNCHANGED <<pc, ef>>

NextBounds ==
  \/ AddColsForBounds
  \/ AddRowsForBounds
  \/ RunForBounds
  \/ ChangeColsBounds
  \/ ChangeRowsBounds

SpecBounds == InitChange /\ [][NextBounds]_vars

\* A status that is not Basic agrees with the bounds
StatusAgrees(status, lower, upper) ==
  /\ status = "kLower" => ~highs_isInfinity(-lower)
  /\ status = "kUpper" => ~highs_isInfinity(upper)
  /\ status = "kZero" => highs_isInfinity(-lower) /\ highs_isInfinity(upper)
  /\ status # "kNonbasic"

\* C36: after changeColBoundsInterface or changeRowBoundsInterface on a model
\* with a valid basis every column or row of the collection that is not
\* basic has a status that agrees with its new bounds: Lower only with a
\* finite lower bound, Upper only with a finite upper bound, Zero only with
\* both bounds infinite, and never Nonbasic
C36_StatusAgreesWithBounds ==
  /\ (call.op = "changeColsBounds" /\ call.status = "kOk" /\ basis.valid) =>
       \A iCol \in call.arg :
         basis.col_status[iCol + 1] # "kBasic" =>
           StatusAgrees(basis.col_status[iCol + 1], lp.col_lower_[iCol + 1],
                        lp.col_upper_[iCol + 1])
  /\ (call.op = "changeRowsBounds" /\ call.status = "kOk" /\ basis.valid) =>
       \A iRow \in call.arg :
         basis.row_status[iRow + 1] # "kBasic" =>
           StatusAgrees(basis.row_status[iRow + 1], lp.row_lower_[iRow + 1],
                        lp.row_upper_[iRow + 1])


(***************************************************************************)
(* Specification SpecEngine: columns and rows are added to a solved model, *)
(* and the basis of the engine is looked at as the append functions leave  *)
(* it, before the engine is told of the new columns or rows                 *)
(***************************************************************************)
EngineBounds == {Free, NonNegative, BoxedNearUpper}

RunForEngine ==
  /\ lp.num_col_ > 0
  /\ \E B \in BasicSets(Highs) : RunCall("kOptimal", B, 0)

\* Highs::addCols; the call record keeps the basis of the engine before the
\* call and after appendNonbasicColsToBasisInterface
AddColsToEngine ==
  /\ Idle
  /\ \E n \in 1..(MaxCol - lp.num_col_), b \in EngineBounds :
       \E appended \in {appendNonbasicColsToBasisInterface(
                          [Highs EXCEPT !.lp = appendColsToLpVectors(
                             @, n, Const(n, 0), Const(n, b[1]), Const(n, b[2]))],
                          n)},
          r \in {addColsInterface(Highs, n, Const(n, 0), Const(n, b[1]),
                                  Const(n, b[2]), 0, Const(n, <<>>), FALSE,
                                  FALSE)} :
         /\ Commit(r.h)
         /\ Called("addCols", r.status,
                   [engine |-> ekk, num_col_ |-> lp.num_col_,
                    num_row_ |-> lp.num_row_, newNumCol |-> lp.num_col_ + n,
                    newNumRow |-> lp.num_row_, appended |-> appended.ekk])
  /\ pre' = NoPre
  /\ UNCHANGED <<pc, ef>>

\* Highs::addRows; the call record keeps the basis of the engine before the
\* call and after appendBasicRowsToBasisInterface
AddRowsToEngine ==
  /\ Idle
  /\ \E n \in 1..(MaxRow - lp.num_row_), b \in EngineBounds :
       \E appended \in {appendBasicRowsToBasisInterface(
                          [Highs EXCEPT !.lp = appendRowsToLpVectors(
                             @, n, Const(n, b[1]), Const(n, b[2]))],
                          n)},
          r \in {addRowsInterface(Highs, n, Const(n, b[1]), Const(n, b[2]), 0,
                                  Const(n, <<>>), FALSE, FALSE)} :
         /\ Commit(r.h)
         /\ Called("addRows", r.status,
                   [engine |-> ekk, num_col_ |-> lp.num_col_,
                    num_row_ |-> lp.num_row_, newNumCol |-> lp.num_col_,
                    newNumRow |-> lp.num_row_ + n, appended |-> appended.ekk])
  /\ pre' = NoPre
  /\ UNCHANGED <<pc, ef>>

NextEngine ==
  \/ AddColsToEngine
  \/ AddRowsToEngine
  \/ RunForEngine

SpecEngine == InitLex /\ [][NextEngine]_vars

\* The variables that basicIndex_ lists
BasicVariables(simplex_basis) ==
  {simplex_basis.basicIndex_[iRow] : iRow \in 1..Len(simplex_basis.basicIndex_)}

\* C37: when the engine holds a basis, the basis that
\* appendNonbasicColsToBasisInterface or appendBasicRowsToBasisInterface
\* leaves has one entry of basicIndex_ for each row, the flag of a variable
\* is false if basicIndex_ lists it and true if not, and every logical that
\* was there before has the flag and the move it had, and its place in
\* basicIndex_ if it was basic, under its new index
C37_EngineBasisConsistent ==
  (call.op \in {"addCols", "addRows"} /\ call.status = "kOk"
   /\ call.arg.engine.has_basis) =>
    LET before == call.arg.engine
        after == call.arg.appended
        shift == call.arg.newNumCol - call.arg.num_col_
    IN  /\ Len(after.basicIndex_) = call.arg.newNumRow
        /\ Len(after.nonbasicFlag_) = call.arg.newNumCol + call.arg.newNumRow
        /\ Len(after.nonbasicMove_) = call.arg.newNumCol + call.arg.newNumRow
        /\ Cardinality(BasicVariables(after)) = call.arg.newNumRow
        /\ \A iVar \in 0..(call.arg.newNumCol + call.arg.newNumRow - 1) :
             after.nonbasicFlag_[iVar + 1] =
               IF iVar \in BasicVariables(after) THEN kNonbasicFlagFalse
               ELSE kNonbasicFlagTrue
        /\ \A iRow \in 0..(call.arg.num_row_ - 1) :
             /\ after.nonbasicFlag_[call.arg.newNumCol + iRow + 1] =
                  before.nonbasicFlag_[call.arg.num_col_ + iRow + 1]
             /\ after.nonbasicMove_[call.arg.newNumCol + iRow + 1] =
                  before.nonbasicMove_[call.arg.num_col_ + iRow + 1]
             /\ \A r \in 1..call.arg.num_row_ :
                  before.basicIndex_[r] = call.arg.num_col_ + iRow =>
                    after.basicIndex_[r] = call.arg.newNumCol + iRow

\* A column has been added to a basis of the engine with a basic column, a
\* nonbasic logical and a basic logical
C37_Witness ==
  /\ call.op = "addCols"
  /\ call.status = "kOk"
  /\ call.arg.engine.has_basis
  /\ call.arg.engine.basicIndex_ = <<0, 2>>
  /\ call.arg.appended.basicIndex_ = <<0, 3>>
  /\ call.arg.appended.nonbasicFlag_ =
       <<kNonbasicFlagFalse, kNonbasicFlagTrue, kNonbasicFlagTrue,
         kNonbasicFlagFalse>>


(***************************************************************************)
(* Specification SpecReuse: lexicographic solves of LPs and of MIPs, where  *)
(* the solution of one MIP is handed to the next and may be refused         *)
(***************************************************************************)
\* The verdicts on one pass of the loop: what setSolution returns when it is
\* called, and what the solver finds
SolveVerdicts ==
  {[status |-> "kOk", model_status |-> "kOptimal", set_solution |-> "kOk"],
   [status |-> "kOk", model_status |-> "kOptimal", set_solution |-> "kError"],
   [status |-> "kOk", model_status |-> "kInfeasible", set_solution |-> "kOk"],
   [status |-> "kError", model_status |-> "kUnknown", set_solution |-> "kOk"]}

\* Highs::run with objectives in the list, each pass with any verdict
SolveReusing ==
  /\ Idle
  /\ Len(multi_linear_objective_) > 0
  /\ \E outcomes \in [1..Len(multi_linear_objective_) -> SolveVerdicts] :
       \E r \in {multiobjectiveSolve(Highs, outcomes)} :
         /\ Commit(r.h)
         /\ Called("multiobjectiveSolve", r.status, [log |-> r.log])
  /\ pre' = lp
  /\ pc' = "solved"
  /\ UNCHANGED ef

\* changeColsIntegrality: the first column becomes integer while the model
\* has no objectives
MakeMip ==
  /\ lp.num_col_ > 0
  /\ ~isMip(lp)
  /\ multi_linear_objective_ = <<>>
  /\ ChangeIntegralityCall(Interval(lp.num_col_, 0, 0), <<"kInteger">>, FALSE)

\* The coefficients of the objectives: of unit size, or as large as
\* large_matrix_value
ReuseCoefficients == {One, large_matrix_value}

\* addLinearObjective once the columns are there
AddObjectiveToReuse ==
  /\ Idle
  /\ lp.num_col_ > 0
  /\ Len(multi_linear_objective_) < MaxObj
  /\ \E coefficient \in ReuseCoefficients, priority \in 0..(MaxObj - 1) :
       \E r \in {addLinearObjective(
                   Highs,
                   [weight |-> One, offset |-> 0,
                    coefficients |-> Const(lp.num_col_, coefficient),
                    abs_tolerance |-> 0, rel_tolerance |-> -One,
                    priority |-> priority], -1)} :
         Commit(r.h) /\ Called("addLinearObjective", r.status, <<>>)
  /\ pre' = NoPre
  /\ UNCHANGED <<pc, ef>>

AddColsToReuse ==
  /\ multi_linear_objective_ = <<>>
  /\ AddColsForLex

AddRowsToReuse ==
  /\ multi_linear_objective_ = <<>>
  /\ AddRowsForLex

NextReuse ==
  \/ AddColsToReuse
  \/ AddRowsToReuse
  \/ MakeMip
  \/ SetBlend
  \/ AddObjectiveToReuse
  \/ SolveReusing

SpecReuse == InitLex /\ [][NextReuse]_vars

\* C38: when multiobjectiveSolve returns from a lexicographic call whose
\* loop over the objectives has started, whatever the return, the LP has the
\* number of rows it had before the call, the rows appended being deleted
\* and the rows, their bounds and their entries, being those of before
C38_AppendedRowsDeleted ==
  (LexicographicCall /\ call.arg.log # <<>>) =>
    /\ lp.num_row_ = pre.num_row_
    /\ lp.a_matrix_ = pre.a_matrix_
    /\ \A iRow \in 1..pre.num_row_ :
         /\ lp.row_lower_[iRow] = pre.row_lower_[iRow]
         /\ lp.row_upper_[iRow] = pre.row_upper_[iRow]

\* A row has been appended to a MIP with a row, the solution of the first
\* solve has been refused for the second, and the call has returned kError
C38_Witness ==
  /\ LexicographicCall
  /\ isMip(lp)
  /\ pre.num_row_ = 1
  /\ Appended(call.arg.log) # {}
  /\ call.arg.log[Len(call.arg.log)].event = "addRow"
  /\ call.status = "kError"
  /\ lp.num_row_ = 1


(***************************************************************************)
(* Specification SpecCoefficient: a coefficient is changed in a model that  *)
(* holds a basis or holds none                                              *)
(***************************************************************************)
NewCoefficients == {0, Half, One}

\* The indices of basis_.col_status that changeCoefficientInterface reads:
\* the status of the column is read whatever the size of the vector
colStatusRead(h, ext_col) == {ext_col}

\* Highs::changeCoeff of an entry of the model.  Where col_status has no
\* entry for the column, what the read finds is any value
ChangeCoefficientOfAny ==
  /\ Idle
  /\ \E row \in 0..(lp.num_row_ - 1), col \in 0..(lp.num_col_ - 1),
        value \in NewCoefficients, oob_basic \in BOOLEAN :
       /\ col < Len(basis.col_status) => ~oob_basic
       /\ \E r \in {changeCoefficientInterface(Highs, row, col, value,
                                               oob_basic)} :
            /\ Commit(r.h)
            /\ Called("changeCoefficient", r.status,
                      [row |-> row, col |-> col,
                       read |-> colStatusRead(Highs, col),
                       size |-> Len(basis.col_status)])
  /\ pre' = NoPre
  /\ UNCHANGED <<pc, ef>>

NextCoefficient ==
  \/ AddNonNegativeCols
  \/ AddRowsForChange
  \/ RunForChange
  \/ ChangeCoefficientOfAny

SpecCoefficient == InitChange /\ [][NextCoefficient]_vars

\* C39: changeCoefficientInterface reads the status of the column only
\* where col_status has an entry for it; when no basis is held and
\* col_status is empty, nothing outside the vector is read
C39_StatusReadInsideVector ==
  call.op = "changeCoefficient" =>
    \A iCol \in call.arg.read : iCol < call.arg.size


(***************************************************************************)
(* Specification SpecSolve: systems with the basis matrix are solved for a  *)
(* caller that asks, or does not ask, for the indices of the nonzeros       *)
(***************************************************************************)
RhsValues == {-One, 0, One}

\* What a read through the null pointer does: it ends the call, or it finds
\* an index of solution_indices or an index that is outside it
NullReads(num_row) ==
  {[fault |-> TRUE, value |-> 0]}
  \cup {[fault |-> FALSE, value |-> value] : value \in 0..num_row}

\* The reads of one call
NoReads(num_row) == [k \in 1..num_row |-> [fault |-> TRUE, value |-> 0]]

\* Highs::getBasisSolve and getBasisTransposeSolve on a model with a factor.
\* The caller's number of nonzeros starts at -1 and its indices start at -1
GetBasisSolve ==
  /\ Idle
  /\ lp.num_row_ > 0
  /\ ekk.has_invert
  /\ \E rhs \in [1..lp.num_row_ -> RhsValues],
        indices_null \in BOOLEAN, transpose \in BOOLEAN, known \in BOOLEAN,
        reads \in [1..lp.num_row_ -> NullReads(lp.num_row_)] :
       /\ (indices_null \/ known) => reads = NoReads(lp.num_row_)
       /\ \E r \in {basisSolveInterface(Highs, rhs, Const(lp.num_row_, 0), -1,
                                        Const(lp.num_row_, -1), indices_null,
                                        transpose, known, reads)} :
            Called("basisSolve", r.status,
                   [indices_null |-> indices_null, known |-> known,
                    array |-> solveVector(Highs, rhs, transpose, known).array,
                    solution_vector |-> r.solution_vector,
                    solution_num_nz |-> r.solution_num_nz,
                    solution_indices |-> r.solution_indices,
                    fault |-> r.fault, outside |-> r.outside])
  /\ Commit(Highs)
  /\ pre' = NoPre
  /\ UNCHANGED <<pc, ef>>

NextSolve ==
  \/ AddColsForRay
  \/ AddRowsForRay
  \/ SolveForRay
  \/ GetBasisSolve

SpecSolve == InitLex /\ [][NextSolve]_vars

\* C40: when the caller asks for the indices and the engine does not report
\* the nonzeros of the solution, basisSolveInterface returns with the rows
\* of the nonzeros of the solution in ascending order at the head of
\* solution_indices and with their number in *solution_num_nz
C40_IndicesWritten ==
  (call.op = "basisSolve" /\ ~call.arg.indices_null /\ ~call.arg.known) =>
    /\ ~call.arg.fault
    /\ ~call.arg.outside
    /\ call.arg.solution_vector = call.arg.array
    /\ call.arg.solution_num_nz = Len(Nonzeros(call.arg.array))
    /\ SubSeq(call.arg.solution_indices, 1, Len(Nonzeros(call.arg.array))) =
         Nonzeros(call.arg.array)

====
